---- MODULE Spec2Model ----
(***************************************************************************)
(* A model of zetasql/public/function_signature.cc: FunctionArgumentType,  *)
(* FunctionArgumentTypeOptions and FunctionSignature as value objects, the *)
(* validity rules, the concrete-argument expansion and the wire form.      *)
(*                                                                         *)
(* Optional members (absl::optional, nullable pointers, proto fields with  *)
(* presence) are sequences of length 0 or 1; a null Type pointer is "".    *)
(***************************************************************************)
EXTENDS Integers, Sequences, FiniteSets, TLC

VARIABLES
    pc,         \* position of the caller: "idle", "constructed", "aborted", ...
    ndebug,     \* TRUE when DCHECKs are compiled out (NDEBUG build)
    sig,        \* the FunctionSignature object (under construction when the
                \* process aborted), <<>> while there is none
    argtype,    \* the FunctionArgumentType built by the last argument-level call
    status,     \* the absl::Status returned by the last call
    wire,       \* the wire message written by the last Serialize
    copy,       \* the object read back by the last Deserialize
    input,      \* the argument passed to the last call that takes one
    answer,     \* the value returned by the last call that returns a bool
    guard,      \* the initialization guard of SimpleOptions' function-local
                \* static: "uninitialized", "initializing" or "initialized"
    presets,    \* the vector the static points to, <<>> before initialization
    inits,      \* how many times the static's initializer has run
    tpc,        \* per thread: its position inside SimpleOptions
    got         \* per thread: the shared object SimpleOptions returned to it

\* The state of the SimpleOptions presets and of the threads calling it.
once == <<guard, presets, inits, tpc, got>>

vars == <<pc, ndebug, sig, argtype, status, wire, copy, input, answer, once>>

-----------------------------------------------------------------------------
(* Enumerations *)

ARG_TYPE_FIXED == "ARG_TYPE_FIXED"
ARG_TYPE_ANY_1 == "ARG_TYPE_ANY_1"
ARG_TYPE_ANY_2 == "ARG_TYPE_ANY_2"
ARG_ARRAY_TYPE_ANY_1 == "ARG_ARRAY_TYPE_ANY_1"
ARG_ARRAY_TYPE_ANY_2 == "ARG_ARRAY_TYPE_ANY_2"
ARG_PROTO_MAP_ANY == "ARG_PROTO_MAP_ANY"
ARG_PROTO_MAP_KEY_ANY == "ARG_PROTO_MAP_KEY_ANY"
ARG_PROTO_MAP_VALUE_ANY == "ARG_PROTO_MAP_VALUE_ANY"
ARG_PROTO_ANY == "ARG_PROTO_ANY"
ARG_STRUCT_ANY == "ARG_STRUCT_ANY"
ARG_ENUM_ANY == "ARG_ENUM_ANY"
ARG_TYPE_RELATION == "ARG_TYPE_RELATION"
ARG_TYPE_MODEL == "ARG_TYPE_MODEL"
ARG_TYPE_CONNECTION == "ARG_TYPE_CONNECTION"
ARG_TYPE_DESCRIPTOR == "ARG_TYPE_DESCRIPTOR"
ARG_TYPE_ARBITRARY == "ARG_TYPE_ARBITRARY"
ARG_TYPE_VOID == "ARG_TYPE_VOID"
ARG_TYPE_LAMBDA == "ARG_TYPE_LAMBDA"

\* Every kind except Lambda (a Lambda argument also needs its nested types).
PlainKinds ==
    { ARG_TYPE_FIXED, ARG_TYPE_ANY_1, ARG_TYPE_ANY_2, ARG_ARRAY_TYPE_ANY_1,
      ARG_ARRAY_TYPE_ANY_2, ARG_PROTO_MAP_ANY, ARG_PROTO_MAP_KEY_ANY,
      ARG_PROTO_MAP_VALUE_ANY, ARG_PROTO_ANY, ARG_STRUCT_ANY, ARG_ENUM_ANY,
      ARG_TYPE_RELATION, ARG_TYPE_MODEL, ARG_TYPE_CONNECTION,
      ARG_TYPE_DESCRIPTOR, ARG_TYPE_ARBITRARY, ARG_TYPE_VOID }

SignatureArgumentKind == PlainKinds \cup { ARG_TYPE_LAMBDA }

REQUIRED == "REQUIRED"
REPEATED == "REPEATED"
OPTIONAL == "OPTIONAL"
ArgumentCardinality == { REQUIRED, REPEATED, OPTIONAL }

NOT_SET == "NOT_SET"

-----------------------------------------------------------------------------
(* absl::Status *)

OkStatus == [code |-> "OK", msg |-> "", detail |-> ""]

\* MakeSqlError() << msg: the validation tier.
MakeSqlError(msg, detail) ==
    [code |-> "INVALID_ARGUMENT", msg |-> msg, detail |-> detail]

\* zetasql_base::InvalidArgumentErrorBuilder() << msg.
InvalidArgumentError(msg, detail) ==
    [code |-> "INVALID_ARGUMENT", msg |-> msg, detail |-> detail]

RetCheckFailure_AsSqlError(msg) ==
    [code |-> "INVALID_ARGUMENT", msg |-> msg, detail |-> ""]

\* A failed ZETASQL_RET_CHECK: the internal tier.
RetCheckFailure(msg) == [code |-> "INTERNAL", msg |-> msg, detail |-> ""]

ok(s) == s.code = "OK"

-----------------------------------------------------------------------------
(* CanHaveDefaultValue and SignatureArgumentKindToString *)

CanHaveDefaultValue_WithDescriptor(kind) ==
    kind \in { ARG_TYPE_FIXED, ARG_TYPE_ANY_1, ARG_TYPE_ANY_2,
               ARG_ARRAY_TYPE_ANY_1, ARG_ARRAY_TYPE_ANY_2, ARG_PROTO_MAP_ANY,
               ARG_PROTO_MAP_KEY_ANY, ARG_PROTO_MAP_VALUE_ANY, ARG_PROTO_ANY,
               ARG_STRUCT_ANY, ARG_ENUM_ANY, ARG_TYPE_ARBITRARY,
               ARG_TYPE_DESCRIPTOR }

\* The default: branch (reached by ARG_TYPE_LAMBDA) returns false where the
\* DCHECK is compiled out.
CanHaveDefaultValue(kind) ==
    kind \in { ARG_TYPE_FIXED, ARG_TYPE_ANY_1, ARG_TYPE_ANY_2,
               ARG_ARRAY_TYPE_ANY_1, ARG_ARRAY_TYPE_ANY_2, ARG_PROTO_MAP_ANY,
               ARG_PROTO_MAP_KEY_ANY, ARG_PROTO_MAP_VALUE_ANY, ARG_PROTO_ANY,
               ARG_STRUCT_ANY, ARG_ENUM_ANY, ARG_TYPE_ARBITRARY }

SignatureArgumentKindToString(kind) ==
    CASE kind = ARG_TYPE_FIXED -> "FIXED"
      [] kind = ARG_TYPE_ANY_1 -> "<T1>"
      [] kind = ARG_TYPE_ANY_2 -> "<T2>"
      [] kind = ARG_ARRAY_TYPE_ANY_1 -> "<array<T1>>"
      [] kind = ARG_ARRAY_TYPE_ANY_2 -> "<array<T2>>"
      [] kind = ARG_PROTO_MAP_ANY -> "<map<K, V>>"
      [] kind = ARG_PROTO_MAP_KEY_ANY -> "<K>"
      [] kind = ARG_PROTO_MAP_VALUE_ANY -> "<V>"
      [] kind = ARG_PROTO_ANY -> "<proto>"
      [] kind = ARG_STRUCT_ANY -> "<struct>"
      [] kind = ARG_ENUM_ANY -> "<enum>"
      [] kind = ARG_TYPE_RELATION -> "ANY TABLE"
      [] kind = ARG_TYPE_MODEL -> "ANY MODEL"
      [] kind = ARG_TYPE_CONNECTION -> "ANY CONNECTION"
      [] kind = ARG_TYPE_DESCRIPTOR -> "ANY DESCRIPTOR"
      [] kind = ARG_TYPE_ARBITRARY -> "<arbitrary>"
      [] kind = ARG_TYPE_VOID -> "<void>"
      [] kind = ARG_TYPE_LAMBDA -> "ANY LAMBDA"
      [] OTHER -> "UNKNOWN_ARG_KIND"

-----------------------------------------------------------------------------
(* FunctionArgumentTypeOptions *)

\* A default-constructed options object.
DefaultOptions ==
    [ cardinality |-> REQUIRED,
      must_be_constant |-> FALSE,
      must_be_non_null |-> FALSE,
      is_not_aggregate |-> FALSE,
      must_support_equality |-> FALSE,
      must_support_ordering |-> FALSE,
      procedure_argument_mode |-> NOT_SET,
      min_value |-> <<>>,
      max_value |-> <<>>,
      extra_relation_input_columns_allowed |-> TRUE,
      relation_input_schema |-> <<>>,
      argument_name |-> <<>>,
      argument_name_is_mandatory |-> FALSE,
      argument_name_parse_location |-> <<>>,
      argument_type_parse_location |-> <<>>,
      descriptor_resolution_table_offset |-> <<>>,
      default |-> <<>> ]

\* FunctionArgumentTypeOptions(cardinality), as SimpleOptions builds its presets.
OptionsOfCardinality(cardinality) ==
    [DefaultOptions EXCEPT !.cardinality = cardinality]

\* FunctionArgumentTypeOptions(relation_input_schema, extra_allowed): every
\* other member keeps its default.
OptionsOfRelation(relation_input_schema, extra_relation_input_columns_allowed) ==
    [DefaultOptions EXCEPT
        !.relation_input_schema = <<relation_input_schema>>,
        !.extra_relation_input_columns_allowed =
            extra_relation_input_columns_allowed]

\* The preset shared by every argument built without explicit options.
SimpleOptions(cardinality) ==
    CASE cardinality = REQUIRED -> OptionsOfCardinality(REQUIRED)
      [] cardinality = OPTIONAL -> OptionsOfCardinality(OPTIONAL)
      [] cardinality = REPEATED -> OptionsOfCardinality(REPEATED)

-----------------------------------------------------------------------------
(* FunctionArgumentType *)

\* The private constructor every public constructor delegates to.
FunctionArgumentType(kind, type, options, num_occurrences) ==
    [ kind |-> kind, type |-> type, options |-> options,
      num_occurrences |-> num_occurrences, lambda |-> <<>> ]

\* FunctionArgumentType::Lambda: no check is made here.
Lambda(lambda_argument_types, lambda_body_type) ==
    [ kind |-> ARG_TYPE_LAMBDA,
      type |-> lambda_body_type.type,
      options |-> SimpleOptions(REQUIRED),
      num_occurrences |-> 1,
      lambda |-> << [ argument_types |-> lambda_argument_types,
                      body_type |-> lambda_body_type ] >> ]

cardinality(a) == a.options.cardinality
repeated(a) == cardinality(a) = REPEATED
optional(a) == cardinality(a) = OPTIONAL
required(a) == cardinality(a) = REQUIRED
HasDefault(a) == a.options.default # <<>>
GetDefault(a) == a.options.default[1]
has_relation_input_schema(o) == o.relation_input_schema # <<>>
IsLambda(a) == a.kind = ARG_TYPE_LAMBDA
IsVoid(a) == a.kind = ARG_TYPE_VOID
IsRelation(a) == a.kind = ARG_TYPE_RELATION
IsDescriptor(a) == a.kind = ARG_TYPE_DESCRIPTOR
IsFixedRelation(a) ==
    a.kind = ARG_TYPE_RELATION /\ has_relation_input_schema(a.options)
lambda(a) == a.lambda[1]

IsConcrete_NestedIgnored(a) ==
    IF a.kind \notin { ARG_TYPE_FIXED, ARG_TYPE_RELATION, ARG_TYPE_MODEL,
                       ARG_TYPE_CONNECTION, ARG_TYPE_LAMBDA }
    THEN FALSE
    ELSE a.num_occurrences >= 0

RECURSIVE IsConcrete_AnyOccurrences(_)
IsConcrete_AnyOccurrences(a) ==
    IF a.kind \notin { ARG_TYPE_FIXED, ARG_TYPE_RELATION, ARG_TYPE_MODEL,
                       ARG_TYPE_CONNECTION, ARG_TYPE_LAMBDA }
    THEN FALSE
    ELSE IF a.kind = ARG_TYPE_LAMBDA
    THEN IF \E i \in 1..Len(lambda(a).argument_types) :
                ~IsConcrete_AnyOccurrences(lambda(a).argument_types[i])
         THEN FALSE
         ELSE IsConcrete_AnyOccurrences(lambda(a).body_type)
    ELSE TRUE

RECURSIVE IsConcrete(_)
IsConcrete(a) ==
    IF a.kind \notin { ARG_TYPE_FIXED, ARG_TYPE_RELATION, ARG_TYPE_MODEL,
                       ARG_TYPE_CONNECTION, ARG_TYPE_LAMBDA }
    THEN FALSE
    ELSE IF a.num_occurrences < 0
    THEN FALSE
    ELSE IF a.kind = ARG_TYPE_LAMBDA
    THEN IF \E i \in 1..Len(lambda(a).argument_types) :
                ~IsConcrete(lambda(a).argument_types[i])
         THEN FALSE
         ELSE IsConcrete(lambda(a).body_type)
    ELSE TRUE

IsTemplated_ByKindOnly(a) ==
    a.kind # ARG_TYPE_FIXED /\ ~IsFixedRelation(a) /\ ~IsVoid(a)

RECURSIVE IsTemplated(_)
IsTemplated(a) ==
    IF a.kind = ARG_TYPE_LAMBDA
    THEN IF \E i \in 1..Len(lambda(a).argument_types) :
                IsTemplated(lambda(a).argument_types[i])
         THEN TRUE
         ELSE IsTemplated(lambda(a).body_type)
    ELSE a.kind # ARG_TYPE_FIXED /\ ~IsFixedRelation(a) /\ ~IsVoid(a)

-----------------------------------------------------------------------------
(* Types, values and relation schemas on the wire.  Only simple types occur, *)
(* which add nothing to a FileDescriptorSetMap.                              *)

Types == { "INT64", "STRING", "BOOL" }

\* Type::SerializeToProtoAndDistinctFileDescriptors, for a simple type.
TypeSerialize(type) ==
    [ type_kind |-> CASE type = "INT64" -> "TYPE_INT64"
                      [] type = "STRING" -> "TYPE_STRING"
                      [] type = "BOOL" -> "TYPE_BOOL" ]

\* TypeFactory::DeserializeFromProtoUsingExistingPools, for a simple type.
TypeDeserialize(type_proto) ==
    CASE type_proto.type_kind = "TYPE_INT64" -> "INT64"
      [] type_proto.type_kind = "TYPE_STRING" -> "STRING"
      [] type_proto.type_kind = "TYPE_BOOL" -> "BOOL"

\* A Value is its type, its validity and its content; the wire form of a
\* valid Value carries the content alone.
Value(type, v) == [ type |-> type, is_valid |-> TRUE, v |-> v ]
InvalidValue == [ type |-> "", is_valid |-> FALSE, v |-> "" ]
ValueSerialize(value) == [ content |-> value.v ]
ValueDeserialize(value_proto, type) == Value(type, value_proto.content)

\* A TVFRelation is a sequence of columns [name, type].
TVFRelationSerialize(relation) ==
    [ column |-> [ i \in 1..Len(relation) |->
                      [ name |-> relation[i].name,
                        type |-> TypeSerialize(relation[i].type) ] ] ]

TVFRelationDeserialize(relation_proto) ==
    [ i \in 1..Len(relation_proto.column) |->
        [ name |-> relation_proto.column[i].name,
          type |-> TypeDeserialize(relation_proto.column[i].type) ] ]

\* A proto field: set(v) is present, unset is absent; get reads the value or
\* the field's default.
set(v) == <<v>>
unset == <<>>
has(field) == field # <<>>
get(field, dflt) == IF field # <<>> THEN field[1] ELSE dflt

FunctionArgumentTypeOptions_Serialize(o, arg_type) ==
    [ cardinality |-> set(o.cardinality),
      procedure_argument_mode |->
          IF o.procedure_argument_mode # NOT_SET
          THEN set(o.procedure_argument_mode) ELSE unset,
      must_be_constant |-> IF o.must_be_constant THEN set(TRUE) ELSE unset,
      must_be_non_null |-> IF o.must_be_non_null THEN set(TRUE) ELSE unset,
      is_not_aggregate |-> IF o.is_not_aggregate THEN set(TRUE) ELSE unset,
      must_support_equality |->
          IF o.must_support_equality THEN set(TRUE) ELSE unset,
      must_support_ordering |->
          IF o.must_support_ordering THEN set(TRUE) ELSE unset,
      min_value |-> IF has(o.min_value) THEN set(o.min_value[1]) ELSE unset,
      max_value |-> IF has(o.max_value) THEN set(o.max_value[1]) ELSE unset,
      descriptor_resolution_table_offset |->
          IF has(o.descriptor_resolution_table_offset)
          THEN set(o.descriptor_resolution_table_offset[1]) ELSE unset,
      default_value |->
          IF has(o.default) THEN set(ValueSerialize(o.default[1])) ELSE unset,
      default_value_type |->
          IF has(o.default) /\ arg_type = ""
          THEN set(TypeSerialize(o.default[1].type)) ELSE unset,
      extra_relation_input_columns_allowed |->
          set(o.extra_relation_input_columns_allowed),
      relation_input_schema |->
          IF has_relation_input_schema(o)
          THEN set(TVFRelationSerialize(o.relation_input_schema[1]))
          ELSE unset,
      argument_name |->
          IF has(o.argument_name) THEN set(o.argument_name[1]) ELSE unset,
      argument_name_is_mandatory |->
          IF o.argument_name_is_mandatory THEN set(TRUE) ELSE unset,
      argument_name_parse_location |->
          IF has(o.argument_name_parse_location)
          THEN set(o.argument_name_parse_location[1]) ELSE unset,
      argument_type_parse_location |->
          IF has(o.argument_type_parse_location)
          THEN set(o.argument_type_parse_location[1]) ELSE unset ]

\* The members set before the relation_input_schema field is looked at.
OptionsBeforeSchema(p) ==
    [ DefaultOptions EXCEPT
        !.cardinality = get(p.cardinality, REQUIRED),
        !.must_be_constant = get(p.must_be_constant, FALSE),
        !.must_be_non_null = get(p.must_be_non_null, FALSE),
        !.is_not_aggregate = get(p.is_not_aggregate, FALSE),
        !.must_support_equality = get(p.must_support_equality, FALSE),
        !.must_support_ordering = get(p.must_support_ordering, FALSE),
        !.procedure_argument_mode =
            IF has(p.procedure_argument_mode)
            THEN p.procedure_argument_mode[1] ELSE @,
        !.min_value = IF has(p.min_value) THEN set(p.min_value[1]) ELSE @,
        !.max_value = IF has(p.max_value) THEN set(p.max_value[1]) ELSE @,
        !.extra_relation_input_columns_allowed =
            IF has(p.extra_relation_input_columns_allowed)
            THEN p.extra_relation_input_columns_allowed[1] ELSE @ ]

\* if (has_relation_input_schema) *options = FunctionArgumentTypeOptions(
\*     relation, options->extra_relation_input_columns_allowed());
OptionsAtSchema(p, o) ==
    IF has(p.relation_input_schema)
    THEN OptionsOfRelation(TVFRelationDeserialize(p.relation_input_schema[1]),
                           o.extra_relation_input_columns_allowed)
    ELSE o

\* The members set after the relation_input_schema field, up to the default.
OptionsAfterSchema(p, o) ==
    [ o EXCEPT
        !.argument_name =
            IF has(p.argument_name) THEN set(p.argument_name[1]) ELSE @,
        !.argument_name_is_mandatory =
            IF has(p.argument_name_is_mandatory)
            THEN p.argument_name_is_mandatory[1] ELSE @,
        !.argument_name_parse_location =
            IF has(p.argument_name_parse_location)
            THEN set(p.argument_name_parse_location[1]) ELSE @,
        !.argument_type_parse_location =
            IF has(p.argument_type_parse_location)
            THEN set(p.argument_type_parse_location[1]) ELSE @,
        !.descriptor_resolution_table_offset =
            IF has(p.descriptor_resolution_table_offset)
            THEN set(p.descriptor_resolution_table_offset[1]) ELSE @ ]

\* FunctionArgumentTypeOptions::Deserialize: [status, options].
FunctionArgumentTypeOptions_Deserialize(p, arg_kind, arg_type) ==
    LET o == OptionsAfterSchema(p, OptionsAtSchema(p, OptionsBeforeSchema(p)))
        default_value_type ==
            IF has(p.default_value_type)
            THEN TypeDeserialize(p.default_value_type[1])
            ELSE arg_type
    IN  IF ~has(p.default_value)
        THEN [ status |-> OkStatus, options |-> o ]
        ELSE IF ~CanHaveDefaultValue(arg_kind)
        THEN [ status |->
                   InvalidArgumentError(" argument cannot have a default value",
                       SignatureArgumentKindToString(arg_kind)),
               options |-> o ]
        ELSE IF has(p.default_value_type) /\ arg_type # ""
        THEN [ status |-> RetCheckFailure("arg_type == nullptr"),
               options |-> o ]
        ELSE IF default_value_type = ""
        THEN [ status |-> RetCheckFailure("default_value_type != nullptr"),
               options |-> o ]
        ELSE [ status |-> OkStatus,
               options |->
                   [ o EXCEPT !.default =
                       set(ValueDeserialize(p.default_value[1],
                                            default_value_type)) ] ]

RECURSIVE FunctionArgumentType_Serialize(_)
FunctionArgumentType_Serialize(a) ==
    [ kind |-> set(a.kind),
      num_occurrences |-> set(a.num_occurrences),
      type |-> IF a.type # "" THEN set(TypeSerialize(a.type)) ELSE unset,
      options |-> FunctionArgumentTypeOptions_Serialize(a.options, a.type),
      lambda |->
          IF IsLambda(a)
          THEN set([ argument |->
                         [ i \in 1..Len(lambda(a).argument_types) |->
                             FunctionArgumentType_Serialize(
                                 lambda(a).argument_types[i]) ],
                     body |->
                         FunctionArgumentType_Serialize(lambda(a).body_type) ])
          ELSE unset ]

\* FunctionArgumentType::Deserialize: [status, result], result of length 1
\* on success.
RECURSIVE FunctionArgumentType_Deserialize(_)
FunctionArgumentType_Deserialize(p) ==
    LET kind == p.kind[1]
        type == IF kind = ARG_TYPE_FIXED THEN TypeDeserialize(p.type[1]) ELSE ""
        opt == FunctionArgumentTypeOptions_Deserialize(p.options, kind, type)
        num_occurrences == p.num_occurrences[1]
    IN  IF ~ok(opt.status)
        THEN [ status |-> opt.status, result |-> <<>> ]
        ELSE IF type # ""
        THEN [ status |-> OkStatus,
               result |-> << FunctionArgumentType(ARG_TYPE_FIXED, type,
                                 opt.options, num_occurrences) >> ]
        ELSE IF kind = ARG_TYPE_LAMBDA
        THEN LET n == Len(p.lambda[1].argument)
                 args == [ i \in 1..n |->
                     FunctionArgumentType_Deserialize(p.lambda[1].argument[i]) ]
                 body == FunctionArgumentType_Deserialize(p.lambda[1].body)
                 bad == { i \in 1..n : ~ok(args[i].status) }
             IN  IF bad # {}
                 THEN [ status |->
                            args[CHOOSE i \in bad : \A j \in bad : i <= j].status,
                        result |-> <<>> ]
                 ELSE IF ~ok(body.status)
                 THEN [ status |-> body.status, result |-> <<>> ]
                 ELSE [ status |-> OkStatus,
                        result |-> << Lambda([ i \in 1..n |-> args[i].result[1] ],
                                             body.result[1]) >> ]
        ELSE [ status |-> OkStatus,
               result |-> << FunctionArgumentType(kind, "", opt.options,
                                 num_occurrences) >> ]

-----------------------------------------------------------------------------
(* Per-argument validity *)

IsLambdaAllowedArgType(arg_type) ==
    arg_type.kind \in { ARG_TYPE_FIXED, ARG_TYPE_ANY_1, ARG_TYPE_ANY_2,
                        ARG_ARRAY_TYPE_ANY_1, ARG_ARRAY_TYPE_ANY_2 }

CheckLambdaArgType_KindOnly(arg_type) ==
    IF ~IsLambdaAllowedArgType(arg_type)
    THEN RetCheckFailure("arg_type type not supported by lambda")
    ELSE OkStatus

\* The options are compared through their wire form, as the code does.
CheckLambdaArgType(arg_type) ==
    IF ~IsLambdaAllowedArgType(arg_type)
    THEN RetCheckFailure("arg_type type not supported by lambda")
    ELSE IF FunctionArgumentTypeOptions_Serialize(arg_type.options, "")
            # FunctionArgumentTypeOptions_Serialize(SimpleOptions(REQUIRED), "")
    THEN RetCheckFailure("Only REQUIRED simple options are supported by lambda")
    ELSE OkStatus

\* The switch on cardinality() at the head of FunctionArgumentType::IsValid.
CardinalityCheck_Lenient(a) ==
    IF HasDefault(a) /\ ~optional(a)
    THEN MakeSqlError("Default value cannot be applied to this argument", "")
    ELSE OkStatus

CardinalityCheck(a) ==
    CASE cardinality(a) = REPEATED ->
            IF IsConcrete(a) /\ a.num_occurrences < 0
            THEN MakeSqlError("REPEATED concrete argument has N occurrences but must have at least 0",
                              ToString(a.num_occurrences))
            ELSE IF HasDefault(a)
            THEN MakeSqlError("Default value cannot be applied to a REPEATED argument", "")
            ELSE OkStatus
      [] cardinality(a) = OPTIONAL ->
            IF IsConcrete(a) /\ (a.num_occurrences < 0 \/ a.num_occurrences > 1)
            THEN MakeSqlError("OPTIONAL concrete argument has N occurrences but must have 0 or 1",
                              ToString(a.num_occurrences))
            ELSE IF HasDefault(a) /\ ~CanHaveDefaultValue(a.kind)
            THEN MakeSqlError(" argument cannot have a default value",
                              SignatureArgumentKindToString(a.kind))
            ELSE IF HasDefault(a) /\ ~GetDefault(a).is_valid
            THEN MakeSqlError("Default value must be valid", "")
            ELSE IF HasDefault(a) /\ a.type # "" /\ GetDefault(a).type # a.type
            THEN MakeSqlError("Default value type does not match the argument type", "")
            ELSE OkStatus
      [] cardinality(a) = REQUIRED ->
            IF IsConcrete(a) /\ a.num_occurrences # 1
            THEN MakeSqlError("REQUIRED concrete argument has N occurrences but must have exactly 1",
                              ToString(a.num_occurrences))
            ELSE IF HasDefault(a)
            THEN MakeSqlError("Default value cannot be applied to a REQUIRED argument", "")
            ELSE OkStatus

\* The Lambda part of FunctionArgumentType::IsValid: the first nested type
\* that fails CheckLambdaArgType decides, the body type last.
LambdaCheck_Skipped(a) == OkStatus

LambdaCheck(a) ==
    IF ~IsLambda(a)
    THEN OkStatus
    ELSE IF cardinality(a) # REQUIRED
    THEN RetCheckFailure("cardinality() == REQUIRED")
    ELSE LET types == lambda(a).argument_types
             bad == { i \in 1..Len(types) : ~ok(CheckLambdaArgType(types[i])) }
         IN  IF bad # {}
             THEN CheckLambdaArgType(
                      types[CHOOSE i \in bad : \A j \in bad : i <= j])
             ELSE CheckLambdaArgType(lambda(a).body_type)

FunctionArgumentType_IsValid(a) ==
    IF ~ok(CardinalityCheck(a)) THEN CardinalityCheck(a) ELSE LambdaCheck(a)

-----------------------------------------------------------------------------
(* Kind relation *)

KindPairRelated_OneWay(kind_, kind) ==
    \/ kind_ = ARG_ARRAY_TYPE_ANY_1 /\ kind = ARG_TYPE_ANY_1
    \/ kind_ = ARG_ARRAY_TYPE_ANY_2 /\ kind = ARG_TYPE_ANY_2
    \/ kind = ARG_ARRAY_TYPE_ANY_2 /\ kind_ = ARG_TYPE_ANY_2
    \/ kind = ARG_PROTO_MAP_ANY /\ kind_ = ARG_PROTO_MAP_KEY_ANY
    \/ kind_ = ARG_PROTO_MAP_ANY /\ kind = ARG_PROTO_MAP_KEY_ANY
    \/ kind = ARG_PROTO_MAP_ANY /\ kind_ = ARG_PROTO_MAP_VALUE_ANY
    \/ kind_ = ARG_PROTO_MAP_ANY /\ kind = ARG_PROTO_MAP_VALUE_ANY

\* The closing disjunction of TemplatedKindIsRelated.
KindPairRelated(kind_, kind) ==
    \/ kind_ = ARG_ARRAY_TYPE_ANY_1 /\ kind = ARG_TYPE_ANY_1
    \/ kind_ = ARG_ARRAY_TYPE_ANY_2 /\ kind = ARG_TYPE_ANY_2
    \/ kind = ARG_ARRAY_TYPE_ANY_1 /\ kind_ = ARG_TYPE_ANY_1
    \/ kind = ARG_ARRAY_TYPE_ANY_2 /\ kind_ = ARG_TYPE_ANY_2
    \/ kind = ARG_PROTO_MAP_ANY /\ kind_ = ARG_PROTO_MAP_KEY_ANY
    \/ kind_ = ARG_PROTO_MAP_ANY /\ kind = ARG_PROTO_MAP_KEY_ANY
    \/ kind = ARG_PROTO_MAP_ANY /\ kind_ = ARG_PROTO_MAP_VALUE_ANY
    \/ kind_ = ARG_PROTO_MAP_ANY /\ kind = ARG_PROTO_MAP_VALUE_ANY

RECURSIVE TemplatedKindIsRelated_Unguarded(_, _)
TemplatedKindIsRelated_Unguarded(a, kind) ==
    IF a.kind = kind
    THEN TRUE
    ELSE IF IsLambda(a)
    THEN \/ \E i \in 1..Len(lambda(a).argument_types) :
                TemplatedKindIsRelated_Unguarded(lambda(a).argument_types[i], kind)
         \/ TemplatedKindIsRelated_Unguarded(lambda(a).body_type, kind)
    ELSE IsTemplated(a) /\ KindPairRelated(a.kind, kind)

RECURSIVE TemplatedKindIsRelated_ArgumentsOnly(_, _)
TemplatedKindIsRelated_ArgumentsOnly(a, kind) ==
    IF ~IsTemplated(a)
    THEN FALSE
    ELSE IF a.kind = kind
    THEN TRUE
    ELSE IF IsLambda(a)
    THEN \E i \in 1..Len(lambda(a).argument_types) :
            TemplatedKindIsRelated_ArgumentsOnly(lambda(a).argument_types[i], kind)
    ELSE KindPairRelated(a.kind, kind)

RECURSIVE TemplatedKindIsRelated(_, _)
TemplatedKindIsRelated(a, kind) ==
    IF ~IsTemplated(a)
    THEN FALSE
    ELSE IF a.kind = kind
    THEN TRUE
    ELSE IF IsLambda(a)
    THEN \/ \E i \in 1..Len(lambda(a).argument_types) :
                TemplatedKindIsRelated(lambda(a).argument_types[i], kind)
         \/ TemplatedKindIsRelated(lambda(a).body_type, kind)
    ELSE KindPairRelated(a.kind, kind)

-----------------------------------------------------------------------------
(* FunctionSignature.  Argument indexes are 0-based as in the code, -1 for  *)
(* none; arguments[idx + 1] is the code's arguments_[idx].                  *)

FunctionSignatureOptions ==
    [ is_deprecated |-> FALSE,
      additional_deprecation_warnings |-> <<>>,
      required_language_features |-> {},
      is_aliased_signature |-> FALSE ]

FirstRepeatedArgumentIndex(arguments) ==
    IF \E idx \in 0..(Len(arguments) - 1) : repeated(arguments[idx + 1])
    THEN CHOOSE idx \in 0..(Len(arguments) - 1) :
            /\ repeated(arguments[idx + 1])
            /\ \A j \in 0..(idx - 1) : ~repeated(arguments[j + 1])
    ELSE -1

LastRepeatedArgumentIndex(arguments) ==
    IF \E idx \in 0..(Len(arguments) - 1) : repeated(arguments[idx + 1])
    THEN CHOOSE idx \in 0..(Len(arguments) - 1) :
            /\ repeated(arguments[idx + 1])
            /\ \A j \in (idx + 1)..(Len(arguments) - 1) :
                    ~repeated(arguments[j + 1])
    ELSE -1

ComputeNumRepeatedArguments(arguments) ==
    IF FirstRepeatedArgumentIndex(arguments) = -1
    THEN 0
    ELSE LastRepeatedArgumentIndex(arguments)
            - FirstRepeatedArgumentIndex(arguments) + 1

\* The length of the longest suffix of Optional arguments.
ComputeNumOptionalArguments(arguments) ==
    LET idx == CHOOSE i \in 0..Len(arguments) :
                /\ \A j \in (i + 1)..Len(arguments) : optional(arguments[j])
                /\ (i - 1 >= 0 => ~optional(arguments[i]))
    IN  Len(arguments) - idx

NumRepeatedArguments(s) == s.num_repeated_arguments
NumOptionalArguments(s) == s.num_optional_arguments
NumRequiredArguments(s) ==
    Len(s.arguments) - NumRepeatedArguments(s) - NumOptionalArguments(s)

HasConcreteArguments(s) ==
    IF s.is_concrete
    THEN TRUE
    ELSE \A i \in 1..Len(s.arguments) :
            ~(s.arguments[i].num_occurrences > 0 /\ ~IsConcrete(s.arguments[i]))

ComputeIsConcrete_ArgumentsOnly(s) == HasConcreteArguments(s)

ComputeIsConcrete(s) ==
    IF ~HasConcreteArguments(s)
    THEN FALSE
    ELSE IF IsRelation(s.result_type)
    THEN TRUE
    ELSE IsConcrete(s.result_type)

Present(a) == a.num_occurrences = 1

RECURSIVE Repetitions(_, _)
Repetitions(block, count) ==
    IF count <= 0 THEN <<>> ELSE block \o Repetitions(block, count - 1)

RECURSIVE EachRepeated(_, _)
EachRepeated(block, count) ==
    IF block = <<>>
    THEN <<>>
    ELSE Repetitions(<<Head(block)>>, count) \o EachRepeated(Tail(block), count)

\* The arguments before the block that are present, the block repeated as a
\* whole, the arguments after the block that are present.
ExpandArguments_PerMember(arguments) ==
    LET first_repeated_idx == FirstRepeatedArgumentIndex(arguments)
        last_repeated_idx == LastRepeatedArgumentIndex(arguments)
    IN  IF first_repeated_idx = -1
        THEN SelectSeq(arguments, Present)
        ELSE SelectSeq(SubSeq(arguments, 1, first_repeated_idx), Present)
             \o EachRepeated(
                    SubSeq(arguments, first_repeated_idx + 1, last_repeated_idx + 1),
                    arguments[first_repeated_idx + 1].num_occurrences)
             \o SelectSeq(SubSeq(arguments, last_repeated_idx + 2, Len(arguments)),
                          Present)

ExpandArguments(arguments) ==
    LET first_repeated_idx == FirstRepeatedArgumentIndex(arguments)
        last_repeated_idx == LastRepeatedArgumentIndex(arguments)
    IN  IF first_repeated_idx = -1
        THEN SelectSeq(arguments, Present)
        ELSE SelectSeq(SubSeq(arguments, 1, first_repeated_idx), Present)
             \o Repetitions(
                    SubSeq(arguments, first_repeated_idx + 1, last_repeated_idx + 1),
                    arguments[first_repeated_idx + 1].num_occurrences)
             \o SelectSeq(SubSeq(arguments, last_repeated_idx + 2, Len(arguments)),
                          Present)

ComputeConcreteArgumentTypes(s) ==
    LET s1 == [ s EXCEPT !.is_concrete = ComputeIsConcrete(s) ]
    IN  IF ~HasConcreteArguments(s1)
        THEN s1
        ELSE [ s1 EXCEPT !.concrete_arguments = ExpandArguments(s1.arguments) ]

-----------------------------------------------------------------------------
(* FunctionSignature::IsValid, check by check in the order of the code *)

ResultCardinalityCheck(s) ==
    IF repeated(s.result_type) \/ optional(s.result_type)
    THEN MakeSqlError("Result type cannot be repeated or optional", "")
    ELSE OkStatus

ResultTemplateCheck_AnyTemplatedArgument(s) ==
    IF /\ IsTemplated(s.result_type)
       /\ s.result_type.kind # ARG_TYPE_ARBITRARY
       /\ ~IsRelation(s.result_type)
       /\ ~\E i \in 1..Len(s.arguments) : IsTemplated(s.arguments[i])
    THEN MakeSqlError("Result type template must match an argument type template", "")
    ELSE OkStatus

ResultTemplateCheck(s) ==
    IF /\ IsTemplated(s.result_type)
       /\ s.result_type.kind # ARG_TYPE_ARBITRARY
       /\ ~IsRelation(s.result_type)
       /\ ~\E i \in 1..Len(s.arguments) :
              TemplatedKindIsRelated(s.result_type, s.arguments[i].kind)
    THEN MakeSqlError("Result type template must match an argument type template", "")
    ELSE OkStatus

\* One nested lambda argument type against the arguments before arg_index.
LambdaArgumentRelated(arguments, arg_index, lambda_arg_type) ==
    LET has_tempalted_args == arg_index > 0 /\ IsTemplated(lambda_arg_type)
        is_related_to_previous_function_arg ==
            \E j \in 0..(arg_index - 1) :
                /\ IsTemplated(lambda_arg_type)
                /\ TemplatedKindIsRelated(lambda_arg_type, arguments[j + 1].kind)
    IN  ~(has_tempalted_args /\ ~is_related_to_previous_function_arg)

LambdaRelationCheck(arguments, arg_index) ==
    LET arg == arguments[arg_index + 1]
    IN  IF /\ IsLambda(arg)
           /\ \E i \in 1..Len(lambda(arg).argument_types) :
                ~LambdaArgumentRelated(arguments, arg_index,
                                       lambda(arg).argument_types[i])
        THEN MakeSqlError("Templated argument of lambda argument type must match an argument type before the lambda argument", "")
        ELSE OkStatus

OptionalSuffixCheck_Off(arg, saw_optional) == OkStatus

OptionalSuffixCheck(arg, saw_optional) ==
    IF ~optional(arg) /\ saw_optional
    THEN MakeSqlError("Optional arguments must be at the end of the argument list", "")
    ELSE OkStatus

RepeatedBlockCheck_Off(arg, after_repeated_block) == OkStatus

RepeatedBlockCheck(arg, after_repeated_block) ==
    IF repeated(arg) /\ after_repeated_block
    THEN MakeSqlError("Repeated arguments must be consecutive", "")
    ELSE OkStatus

RECURSIVE ScanArguments_OrderingFirst(_, _, _, _, _)
ScanArguments_OrderingFirst(arguments, arg_index, saw_optional, after_repeated_block, in_repeated_block) ==
    IF arg_index >= Len(arguments)
    THEN OkStatus
    ELSE LET arg == arguments[arg_index + 1]
         IN  IF IsVoid(arg)
             THEN MakeSqlError("Arguments cannot have type VOID", "")
             ELSE IF ~ok(OptionalSuffixCheck(arg, saw_optional))
             THEN OptionalSuffixCheck(arg, saw_optional)
             ELSE IF ~ok(RepeatedBlockCheck(arg, after_repeated_block))
             THEN RepeatedBlockCheck(arg, after_repeated_block)
             ELSE IF ~ok(LambdaRelationCheck(arguments, arg_index))
             THEN LambdaRelationCheck(arguments, arg_index)
             ELSE IF ~ok(FunctionArgumentType_IsValid(arg))
             THEN FunctionArgumentType_IsValid(arg)
             ELSE ScanArguments_OrderingFirst(arguments, arg_index + 1,
                      saw_optional \/ optional(arg),
                      after_repeated_block \/ (~repeated(arg) /\ in_repeated_block),
                      repeated(arg))

\* The loop over the arguments, from arg_index on, with the loop's flags.
RECURSIVE ScanArguments(_, _, _, _, _)
ScanArguments(arguments, arg_index, saw_optional, after_repeated_block, in_repeated_block) ==
    IF arg_index >= Len(arguments)
    THEN OkStatus
    ELSE LET arg == arguments[arg_index + 1]
         IN  IF ~ok(FunctionArgumentType_IsValid(arg))
             THEN FunctionArgumentType_IsValid(arg)
             ELSE IF IsVoid(arg)
             THEN MakeSqlError("Arguments cannot have type VOID", "")
             ELSE IF ~ok(OptionalSuffixCheck(arg, saw_optional))
             THEN OptionalSuffixCheck(arg, saw_optional)
             ELSE IF ~ok(RepeatedBlockCheck(arg, after_repeated_block))
             THEN RepeatedBlockCheck(arg, after_repeated_block)
             ELSE IF ~ok(LambdaRelationCheck(arguments, arg_index))
             THEN LambdaRelationCheck(arguments, arg_index)
             ELSE ScanArguments(arguments, arg_index + 1,
                      saw_optional \/ optional(arg),
                      after_repeated_block \/ (~repeated(arg) /\ in_repeated_block),
                      repeated(arg))

RepeatedCountCheck_AtLeast(s) ==
    LET first_repeated == FirstRepeatedArgumentIndex(s.arguments)
        last_repeated == LastRepeatedArgumentIndex(s.arguments)
    IN  IF first_repeated < 0
        THEN OkStatus
        ELSE IF \E i \in (first_repeated + 1)..last_repeated :
                    s.arguments[i + 1].num_occurrences
                        # s.arguments[first_repeated + 1].num_occurrences
        THEN MakeSqlError("Repeated arguments must have the same num_occurrences", "")
        ELSE IF NumRepeatedArguments(s) < NumOptionalArguments(s)
        THEN MakeSqlError("The number of repeated arguments must be greater than the number of optional arguments", "")
        ELSE OkStatus

RepeatedCountCheck_AnyOccurrences(s) ==
    LET first_repeated == FirstRepeatedArgumentIndex(s.arguments)
    IN  IF first_repeated < 0
        THEN OkStatus
        ELSE IF NumRepeatedArguments(s) <= NumOptionalArguments(s)
        THEN MakeSqlError("The number of repeated arguments must be greater than the number of optional arguments", "")
        ELSE OkStatus

\* The checks made once a repeated block is found.
RepeatedCountCheck(s) ==
    LET first_repeated == FirstRepeatedArgumentIndex(s.arguments)
        last_repeated == LastRepeatedArgumentIndex(s.arguments)
    IN  IF first_repeated < 0
        THEN OkStatus
        ELSE IF \E i \in (first_repeated + 1)..last_repeated :
                    s.arguments[i + 1].num_occurrences
                        # s.arguments[first_repeated + 1].num_occurrences
        THEN MakeSqlError("Repeated arguments must have the same num_occurrences", "")
        ELSE IF NumRepeatedArguments(s) <= NumOptionalArguments(s)
        THEN MakeSqlError("The number of repeated arguments must be greater than the number of optional arguments", "")
        ELSE OkStatus

DescriptorCheck_InRangeOnly(s) ==
    IF \E i \in 0..(Len(s.arguments) - 1) :
          /\ IsDescriptor(s.arguments[i + 1])
          /\ has(s.arguments[i + 1].options.descriptor_resolution_table_offset)
          /\ LET table_offset ==
                    s.arguments[i + 1].options.descriptor_resolution_table_offset[1]
             IN  \/ table_offset < 0
                 \/ table_offset >= Len(s.arguments)
    THEN MakeSqlError("The table offset argument of descriptor should point to a valid table argument", "")
    ELSE OkStatus

DescriptorCheck(s) ==
    IF \E i \in 0..(Len(s.arguments) - 1) :
          /\ IsDescriptor(s.arguments[i + 1])
          /\ has(s.arguments[i + 1].options.descriptor_resolution_table_offset)
          /\ LET table_offset ==
                    s.arguments[i + 1].options.descriptor_resolution_table_offset[1]
             IN  \/ table_offset < 0
                 \/ table_offset >= Len(s.arguments)
                 \/ ~IsRelation(s.arguments[table_offset + 1])
    THEN MakeSqlError("The table offset argument of descriptor should point to a valid table argument", "")
    ELSE OkStatus

FunctionSignature_IsValid(s) ==
    IF ~ok(ResultCardinalityCheck(s)) THEN ResultCardinalityCheck(s)
    ELSE IF ~ok(ResultTemplateCheck(s)) THEN ResultTemplateCheck(s)
    ELSE IF ~ok(ScanArguments(s.arguments, 0, FALSE, FALSE, FALSE))
    THEN ScanArguments(s.arguments, 0, FALSE, FALSE, FALSE)
    ELSE IF ~ok(RepeatedCountCheck(s)) THEN RepeatedCountCheck(s)
    ELSE DescriptorCheck(s)

\* The members as the constructor's initializer list leaves them; is_concrete
\* starts false and concrete_arguments empty.
InitializedSignature(result_type, arguments, context_id, options) ==
    [ arguments |-> arguments,
      result_type |-> result_type,
      num_repeated_arguments |-> ComputeNumRepeatedArguments(arguments),
      num_optional_arguments |-> ComputeNumOptionalArguments(arguments),
      context_id |-> context_id,
      options |-> options,
      is_concrete |-> FALSE,
      concrete_arguments |-> <<>> ]

\* FunctionSignature::FunctionSignature, past the debug-only validity check.
FunctionSignature(result_type, arguments, context_id, options) ==
    ComputeConcreteArgumentTypes(
        InitializedSignature(result_type, arguments, context_id, options))

\* ZETASQL_DCHECK_OK(IsValid()) in the constructor: fatal unless compiled out.
DcheckFails(result_type, arguments, context_id, options) ==
    /\ ~ndebug
    /\ ~ok(FunctionSignature_IsValid(
              InitializedSignature(result_type, arguments, context_id, options)))

-----------------------------------------------------------------------------
(* SetConcreteResultType *)

SetConcreteResultType_StaleFlag(s, type) ==
    [ s EXCEPT !.result_type =
                   FunctionArgumentType(ARG_TYPE_FIXED, type,
                                        SimpleOptions(REQUIRED), 1) ]

SetConcreteResultType_KeepOptions(s, type) ==
    LET s1 == [ s EXCEPT !.result_type =
                   FunctionArgumentType(ARG_TYPE_FIXED, type,
                                        s.result_type.options, 1) ]
    IN  [ s1 EXCEPT !.is_concrete = ComputeIsConcrete(s1) ]

\* result_type_ = type converts through FunctionArgumentType(const Type*),
\* whose options are SimpleOptions(REQUIRED); ComputeIsConcrete then reads
\* the is_concrete_ of before the call.
SetConcreteResultType(s, type) ==
    LET s1 == [ s EXCEPT !.result_type =
                   FunctionArgumentType(ARG_TYPE_FIXED, type,
                                        SimpleOptions(REQUIRED), 1) ]
    IN  [ s1 EXCEPT !.is_concrete = ComputeIsConcrete(s1) ]

-----------------------------------------------------------------------------
(* Context-specific validity *)

IsValidForFunction_VoidAllowed(s) ==
    IF \E i \in 1..Len(s.arguments) : IsRelation(s.arguments[i])
    THEN RetCheckFailure("Relation arguments are only allowed in table-valued functions")
    ELSE IF IsRelation(s.result_type)
    THEN RetCheckFailure("Relation return types are only allowed in table-valued functions")
    ELSE OkStatus

IsValidForFunction(s) ==
    IF \E i \in 1..Len(s.arguments) : IsRelation(s.arguments[i])
    THEN RetCheckFailure("Relation arguments are only allowed in table-valued functions")
    ELSE IF IsRelation(s.result_type)
    THEN RetCheckFailure("Relation return types are only allowed in table-valued functions")
    ELSE IF IsVoid(s.result_type)
    THEN RetCheckFailure("Function must have a return type")
    ELSE OkStatus

\* zetasql_base::StringCaseLess orders names by their lower-cased form.
AsciiLower(name) ==
    CASE name = "KEY" -> "key"
      [] name = "Key" -> "key"
      [] OTHER -> name

ColumnNamesUnique_CaseSensitive(relation) ==
    \A i, j \in 1..Len(relation) :
        i < j => relation[i].name # relation[j].name

\* InsertIfNotPresent into the std::set succeeds for every column.
ColumnNamesUnique(relation) ==
    \A i, j \in 1..Len(relation) :
        i < j => AsciiLower(relation[i].name) # AsciiLower(relation[j].name)

\* The body of the loop of IsValidForTableValuedFunction for one argument.
TVFArgumentCheck(argument, seen_non_required_args) ==
    IF IsRelation(argument) /\ repeated(argument)
    THEN RetCheckFailure("Repeated relation argument is not supported")
    ELSE IF IsRelation(argument) /\ seen_non_required_args
    THEN RetCheckFailure("Relation arguments cannot follow repeated or optional arguments")
    ELSE IF /\ IsRelation(argument)
            /\ has_relation_input_schema(argument.options)
            /\ ~ColumnNamesUnique(argument.options.relation_input_schema[1])
    THEN RetCheckFailure("InsertIfNotPresent(&column_names, column.name)")
    ELSE IF has_relation_input_schema(argument.options) /\ ~IsRelation(argument)
    THEN RetCheckFailure("argument.IsRelation()")
    ELSE OkStatus

RECURSIVE ScanTVFArguments(_, _, _)
ScanTVFArguments(arguments, idx, seen_non_required_args) ==
    IF idx >= Len(arguments)
    THEN OkStatus
    ELSE IF ~ok(TVFArgumentCheck(arguments[idx + 1], seen_non_required_args))
    THEN TVFArgumentCheck(arguments[idx + 1], seen_non_required_args)
    ELSE ScanTVFArguments(arguments, idx + 1,
             seen_non_required_args \/ ~required(arguments[idx + 1]))

IsValidForTableValuedFunction(s) ==
    IF ~ok(ScanTVFArguments(s.arguments, 0, FALSE))
    THEN ScanTVFArguments(s.arguments, 0, FALSE)
    ELSE IF ~IsRelation(s.result_type)
    THEN RetCheckFailure("Table-valued functions must have relation return type")
    ELSE OkStatus

IsValidForProcedure(s) ==
    IF \E i \in 1..Len(s.arguments) : IsRelation(s.arguments[i])
    THEN RetCheckFailure("Relation arguments are only allowed in table-valued functions")
    ELSE IF IsRelation(s.result_type)
    THEN RetCheckFailure("Relation return types are only allowed in table-valued functions")
    ELSE OkStatus

-----------------------------------------------------------------------------
(* Signature wire form *)

FunctionSignatureOptions_Serialize(o) ==
    [ is_deprecated |-> set(o.is_deprecated),
      additional_deprecation_warning |-> o.additional_deprecation_warnings,
      required_language_feature |-> o.required_language_features,
      is_aliased_signature |->
          IF o.is_aliased_signature THEN set(TRUE) ELSE unset ]

FunctionSignatureOptions_Deserialize(p) ==
    [ is_deprecated |-> get(p.is_deprecated, FALSE),
      additional_deprecation_warnings |-> p.additional_deprecation_warning,
      required_language_features |-> p.required_language_feature,
      is_aliased_signature |-> get(p.is_aliased_signature, FALSE) ]

FunctionSignature_Serialize(s) ==
    [ options |-> FunctionSignatureOptions_Serialize(s.options),
      return_type |-> FunctionArgumentType_Serialize(s.result_type),
      argument |-> [ i \in 1..Len(s.arguments) |->
                        FunctionArgumentType_Serialize(s.arguments[i]) ],
      context_id |-> set(s.context_id) ]

\* FunctionSignature::Deserialize up to the constructor call: [status,
\* result_type, arguments, context_id, options].
FunctionSignature_Deserialize(p) ==
    LET n == Len(p.argument)
        args == [ i \in 1..n |-> FunctionArgumentType_Deserialize(p.argument[i]) ]
        bad == { i \in 1..n : ~ok(args[i].status) }
        result_type == FunctionArgumentType_Deserialize(p.return_type)
        failed == IF bad # {}
                  THEN args[CHOOSE i \in bad : \A j \in bad : i <= j].status
                  ELSE result_type.status
    IN  IF ~ok(failed)
        THEN [ status |-> failed, result_type |-> <<>>, arguments |-> <<>>,
               context_id |-> 0, options |-> FunctionSignatureOptions ]
        ELSE [ status |-> OkStatus,
               result_type |-> result_type.result,
               arguments |-> [ i \in 1..n |-> args[i].result[1] ],
               context_id |-> get(p.context_id, 0),
               options |-> FunctionSignatureOptions_Deserialize(p.options) ]

-----------------------------------------------------------------------------
(* Bounds and input sets *)

MaxArgs == 4
MaxCardArgs == 3
MaxOccurrences == 2
MaxKindArgs == 2
MaxLambdaArgs == 2
MaxWireArgs == 2
MaxThreads == 2
MaxCtxArgs == 2
MaxResArgs == 2

Threads == 1..MaxThreads

SeqsUpTo(S, n) == UNION { [1..k -> S] : k \in 0..n }

Fixed(type, card, n) ==
    FunctionArgumentType(ARG_TYPE_FIXED, type, SimpleOptions(card), n)

Templated(kind, card, n) ==
    FunctionArgumentType(kind, "", SimpleOptions(card), n)

WithDefault(a, value) ==
    [ a EXCEPT !.options = [ @ EXCEPT !.default = <<value>> ] ]

\* Arguments as a resolver binds them to a call, and two left unbound.
ExpandArgs ==
    { Fixed("INT64", REQUIRED, 1),
      WithDefault(Fixed("STRING", OPTIONAL, 0), Value("STRING", "x")),
      WithDefault(Fixed("STRING", OPTIONAL, 1), Value("STRING", "x")),
      Fixed("BOOL", REPEATED, 0),
      Fixed("BOOL", REPEATED, 2),
      Fixed("BOOL", REPEATED, 4),
      Fixed("INT64", REPEATED, 2),
      Templated(ARG_TYPE_ANY_1, REPEATED, -1),
      Templated(ARG_TYPE_ANY_1, REQUIRED, -1) }

ExpandResults ==
    { Fixed("BOOL", REQUIRED, 1),
      Fixed("BOOL", REQUIRED, -1),
      Templated(ARG_TYPE_RELATION, REQUIRED, -1) }

\* Cardinality sequences: a fixed and a templated kind under every
\* cardinality and occurrence count, and one argument each of the kinds
\* that the signature-level rules single out.
CardArgs ==
    { Fixed("INT64", c, n) : c \in ArgumentCardinality, n \in -1..MaxOccurrences }
    \cup { Templated(ARG_TYPE_ANY_1, c, n) :
              c \in ArgumentCardinality, n \in {-1, MaxOccurrences} }
    \cup { Templated(ARG_TYPE_VOID, REQUIRED, -1),
           Lambda(<< Templated(ARG_TYPE_ANY_2, REQUIRED, -1) >>,
                  Fixed("BOOL", REQUIRED, -1)),
           [ Templated(ARG_TYPE_DESCRIPTOR, REQUIRED, -1) EXCEPT
               !.options = [ @ EXCEPT
                   !.descriptor_resolution_table_offset = <<0>> ] ] }

CardResults == { Fixed("INT64", REQUIRED, -1) }

\* One argument and one result of every kind, the two signatures of the
\* result-template examples, and a result that is not Required.
KindArgs ==
    { Fixed("INT64", REQUIRED, -1) }
    \cup { Templated(k, REQUIRED, -1) : k \in PlainKinds \ { ARG_TYPE_FIXED } }
    \cup { Templated(ARG_TYPE_ANY_1, REPEATED, -1),
           Lambda(<< Templated(ARG_TYPE_ANY_1, REQUIRED, -1) >>,
                  Templated(ARG_TYPE_ANY_2, REQUIRED, -1)),
           Lambda(<< Templated(ARG_TYPE_ANY_1, REQUIRED, -1) >>,
                  Fixed("BOOL", REQUIRED, -1)) }

KindResults ==
    { Fixed("INT64", REQUIRED, -1) }
    \cup { Templated(k, REQUIRED, -1) : k \in PlainKinds \ { ARG_TYPE_FIXED } }
    \cup { Templated(ARG_TYPE_ANY_2, OPTIONAL, -1),
           Lambda(<< Templated(ARG_TYPE_ANY_1, REQUIRED, -1) >>,
                  Templated(ARG_TYPE_ANY_2, REQUIRED, -1)) }

\* Single arguments: every plain kind under every cardinality and occurrence
\* count, without a default and with a default that matches the type, does
\* not match it, or is not a valid value.
Defaults ==
    { <<>>, << Value("INT64", "1") >>, << Value("STRING", "x") >>,
      << InvalidValue >> }

TypeOfKind(kind) == IF kind = ARG_TYPE_FIXED THEN "INT64" ELSE ""

\* The types a Lambda is built from: the allowed kinds with simple Required
\* options, unbound and bound to one or more occurrences, kinds that are not
\* allowed, and allowed kinds whose options differ from the simple Required
\* ones in one member.
LambdaArgs ==
    { Fixed("INT64", REQUIRED, -1),
      Templated(ARG_TYPE_ANY_1, REQUIRED, -1),
      Templated(ARG_ARRAY_TYPE_ANY_2, REQUIRED, -1),
      Templated(ARG_PROTO_ANY, REQUIRED, -1),
      Templated(ARG_TYPE_RELATION, REQUIRED, -1),
      Fixed("INT64", REQUIRED, 1),
      Fixed("INT64", REQUIRED, MaxOccurrences),
      Templated(ARG_TYPE_ANY_1, REQUIRED, 1),
      Fixed("INT64", OPTIONAL, -1),
      [ Fixed("INT64", REQUIRED, -1) EXCEPT
          !.options = [ @ EXCEPT !.must_be_constant = TRUE ] ],
      [ Templated(ARG_TYPE_ANY_1, REQUIRED, -1) EXCEPT
          !.options = [ @ EXCEPT !.argument_name = << "x" >> ] ],
      [ Templated(ARG_TYPE_ANY_2, REQUIRED, -1) EXCEPT
          !.options = [ @ EXCEPT
              !.extra_relation_input_columns_allowed = FALSE ] ] }

\* Wire messages of single arguments as any encoder may send them: the
\* options of an argument with or without a default, under every plain kind.
DonorArgs ==
    { Templated(ARG_TYPE_ANY_1, OPTIONAL, -1),
      WithDefault(Templated(ARG_TYPE_ANY_1, OPTIONAL, -1), Value("INT64", "1")),
      WithDefault(Fixed("INT64", OPTIONAL, -1), Value("INT64", "1")) }

ArgProtos ==
    { [ kind |-> set(k),
        num_occurrences |-> set(a.num_occurrences),
        type |-> IF k = ARG_TYPE_FIXED THEN set(TypeSerialize("INT64")) ELSE unset,
        options |-> FunctionArgumentTypeOptions_Serialize(a.options, a.type),
        lambda |-> unset ] : a \in DonorArgs, k \in PlainKinds }

\* Signatures that are sent over the wire: arguments of fixed, templated,
\* relation, descriptor and lambda kinds, with names, defaults and, for
\* relations, an input schema with and without further options.
Schema == << [ name |-> "key", type |-> "INT64" ] >>

RelationWithSchema(options) ==
    FunctionArgumentType(ARG_TYPE_RELATION, "", options, -1)

WireArgs ==
    { Fixed("INT64", REQUIRED, 1),
      Fixed("BOOL", REPEATED, 2),
      WithDefault(Fixed("INT64", OPTIONAL, 1), Value("INT64", "1")),
      WithDefault(Templated(ARG_TYPE_ANY_1, OPTIONAL, -1), Value("STRING", "x")),
      [ Fixed("STRING", REQUIRED, 1) EXCEPT
          !.options = [ @ EXCEPT !.argument_name = << "x" >>,
                                 !.argument_name_is_mandatory = TRUE,
                                 !.must_be_constant = TRUE ] ],
      Templated(ARG_TYPE_RELATION, REQUIRED, -1),
      RelationWithSchema(OptionsOfRelation(Schema, TRUE)),
      RelationWithSchema(OptionsOfRelation(Schema, FALSE)),
      RelationWithSchema([ OptionsOfRelation(Schema, TRUE) EXCEPT
                             !.cardinality = OPTIONAL ]),
      RelationWithSchema([ OptionsOfRelation(Schema, TRUE) EXCEPT
                             !.must_be_non_null = TRUE,
                             !.is_not_aggregate = TRUE ]),
      RelationWithSchema([ OptionsOfRelation(Schema, TRUE) EXCEPT
                             !.argument_name = << "t" >> ]),
      Lambda(<< Templated(ARG_TYPE_ANY_1, REQUIRED, -1) >>,
             Fixed("BOOL", REQUIRED, -1)),
      [ Templated(ARG_TYPE_DESCRIPTOR, REQUIRED, -1) EXCEPT
          !.options = [ @ EXCEPT
              !.descriptor_resolution_table_offset = <<0>> ] ] }

WireResults ==
    { Fixed("BOOL", REQUIRED, 1), Templated(ARG_TYPE_RELATION, REQUIRED, -1) }

\* Signatures as a catalog declares them for functions, procedures and
\* table-valued functions: scalar and relation arguments of every
\* cardinality, relation schemas with distinct and with case-insensitively
\* equal column names, a schema on a scalar argument, descriptors without
\* and with a table offset (in range or not), and lambdas of an allowed and
\* of a disallowed shape.
DescriptorWithOffset(table_offset) ==
    [ Templated(ARG_TYPE_DESCRIPTOR, REQUIRED, -1) EXCEPT
        !.options = [ @ EXCEPT
            !.descriptor_resolution_table_offset = << table_offset >> ] ]

CtxArgs ==
    { Fixed("INT64", c, -1) : c \in ArgumentCardinality }
    \cup { Templated(ARG_TYPE_RELATION, c, -1) : c \in ArgumentCardinality }
    \cup { DescriptorWithOffset(n) : n \in -1..MaxCtxArgs }
    \cup { Templated(ARG_TYPE_DESCRIPTOR, REQUIRED, -1),
           RelationWithSchema(OptionsOfRelation(
               << [ name |-> "key", type |-> "INT64" ],
                  [ name |-> "value", type |-> "STRING" ] >>, TRUE)),
           RelationWithSchema(OptionsOfRelation(
               << [ name |-> "key", type |-> "INT64" ],
                  [ name |-> "KEY", type |-> "STRING" ] >>, TRUE)),
           [ Fixed("INT64", REQUIRED, -1) EXCEPT
               !.options = OptionsOfRelation(Schema, TRUE) ],
           Lambda(<< Fixed("INT64", REQUIRED, -1) >>, Fixed("BOOL", REQUIRED, -1)),
           Lambda(<< Templated(ARG_PROTO_ANY, REQUIRED, -1) >>,
                  Fixed("BOOL", REQUIRED, -1)) }

CtxResults ==
    { Fixed("BOOL", REQUIRED, -1),
      Templated(ARG_TYPE_RELATION, REQUIRED, -1),
      Templated(ARG_TYPE_VOID, REQUIRED, -1) }

\* Signatures whose result is still to be resolved: results that are
\* concrete, unbound, templated, a relation, or not Required; arguments
\* that are concrete, unbound, templated and bound, and omitted.
ResArgs ==
    { Fixed("INT64", REQUIRED, 1),
      Fixed("INT64", REQUIRED, -1),
      Templated(ARG_TYPE_ANY_1, REQUIRED, -1),
      Templated(ARG_TYPE_ANY_1, REQUIRED, 1),
      Fixed("STRING", OPTIONAL, 0),
      Templated(ARG_TYPE_ANY_2, OPTIONAL, 0),
      Fixed("BOOL", REPEATED, 2),
      Templated(ARG_TYPE_VOID, REQUIRED, -1) }

ResResults ==
    { Fixed("BOOL", REQUIRED, 1),
      Fixed("BOOL", REQUIRED, -1),
      Templated(ARG_TYPE_ANY_1, REQUIRED, -1),
      Templated(ARG_TYPE_ARBITRARY, REQUIRED, -1),
      Templated(ARG_TYPE_RELATION, REQUIRED, -1),
      Fixed("BOOL", OPTIONAL, -1),
      Templated(ARG_TYPE_ANY_1, REPEATED, -1) }

-----------------------------------------------------------------------------
(* Actions *)

Init ==
    /\ pc = "idle"
    /\ ndebug \in BOOLEAN
    /\ sig = <<>>
    /\ argtype = <<>>
    /\ status = OkStatus
    /\ wire = <<>>
    /\ copy = <<>>
    /\ input = <<>>
    /\ answer = <<>>
    /\ guard = "uninitialized"
    /\ presets = <<>>
    /\ inits = 0
    /\ tpc = [ t \in Threads |-> [ at |-> "idle", cardinality |-> REQUIRED ] ]
    /\ got = [ t \in Threads |-> <<>> ]

\* new FunctionSignature(result_type, arguments, context_id)
Construct(Results, Args, max) ==
    /\ pc = "idle"
    /\ \E result_type \in Results, arguments \in SeqsUpTo(Args, max) :
          IF DcheckFails(result_type, arguments, 0, FunctionSignatureOptions)
          THEN /\ pc' = "aborted"
               /\ sig' = << InitializedSignature(result_type, arguments, 0,
                                                 FunctionSignatureOptions) >>
          ELSE /\ pc' = "constructed"
               /\ sig' = << FunctionSignature(result_type, arguments, 0,
                                              FunctionSignatureOptions) >>
    /\ UNCHANGED <<ndebug, argtype, status, wire, copy, input, answer, once>>

\* signature.IsValid()
IsValid ==
    /\ pc = "constructed"
    /\ status' = FunctionSignature_IsValid(sig[1])
    /\ pc' = "validated"
    /\ UNCHANGED <<ndebug, sig, argtype, wire, copy, input, answer, once>>

ConstructExpand == Construct(ExpandResults, ExpandArgs, MaxArgs)

Next == ConstructExpand \/ IsValid

Spec == Init /\ [][Next]_vars

ConstructCard == Construct(CardResults, CardArgs, MaxCardArgs)

NextCard == ConstructCard \/ IsValid

SpecCard == Init /\ [][NextCard]_vars

ConstructKind == Construct(KindResults, KindArgs, MaxKindArgs)

NextKind == ConstructKind \/ IsValid

SpecKind == Init /\ [][NextKind]_vars

\* FunctionArgumentType(kind, options, num_occurrences) and
\* FunctionArgumentType(type, options, num_occurrences)
NewArgument ==
    /\ pc = "idle"
    /\ \E kind \in PlainKinds, card \in ArgumentCardinality,
          default \in Defaults, n \in -1..MaxOccurrences :
          argtype' = << FunctionArgumentType(kind, TypeOfKind(kind),
                           [ OptionsOfCardinality(card) EXCEPT
                               !.default = default ], n) >>
    /\ pc' = "argument"
    /\ UNCHANGED <<ndebug, sig, status, wire, copy, input, answer, once>>

\* FunctionArgumentType::Lambda(lambda_argument_types, lambda_body_type)
NewLambda ==
    /\ pc = "idle"
    /\ \E lambda_argument_types \in SeqsUpTo(LambdaArgs, MaxLambdaArgs),
          lambda_body_type \in LambdaArgs :
          argtype' = << Lambda(lambda_argument_types, lambda_body_type) >>
    /\ pc' = "argument"
    /\ UNCHANGED <<ndebug, sig, status, wire, copy, input, answer, once>>

\* argument.IsValid()
ArgumentIsValid ==
    /\ pc = "argument"
    /\ status' = FunctionArgumentType_IsValid(argtype[1])
    /\ pc' = "argument_validated"
    /\ UNCHANGED <<ndebug, sig, argtype, wire, copy, input, answer, once>>

\* FunctionArgumentType::Deserialize(proto, ...)
DeserializeArgument ==
    /\ pc = "idle"
    /\ \E p \in ArgProtos :
          /\ wire' = << p >>
          /\ status' = FunctionArgumentType_Deserialize(p).status
          /\ copy' = FunctionArgumentType_Deserialize(p).result
    /\ pc' = "argument_deserialized"
    /\ UNCHANGED <<ndebug, sig, argtype, input, answer, once>>

\* argument.set_num_occurrences(num_occurrences)
SetNumOccurrences ==
    /\ pc = "argument"
    /\ \E num_occurrences \in -1..MaxOccurrences :
          argtype' = << [ argtype[1] EXCEPT
                           !.num_occurrences = num_occurrences ] >>
    /\ pc' = "argument_rebound"
    /\ UNCHANGED <<ndebug, sig, status, wire, copy, input, answer, once>>

\* argument.IsConcrete()
ArgumentIsConcrete ==
    /\ pc \in { "argument", "argument_rebound" }
    /\ answer' = << IsConcrete(argtype[1]) >>
    /\ pc' = "argument_asked"
    /\ UNCHANGED <<ndebug, sig, argtype, status, wire, copy, input, once>>

NextArg ==
    \/ NewArgument
    \/ NewLambda
    \/ ArgumentIsValid
    \/ DeserializeArgument
    \/ SetNumOccurrences
    \/ ArgumentIsConcrete

SpecArg == Init /\ [][NextArg]_vars

-----------------------------------------------------------------------------
(* Properties of the concrete-argument expansion *)

\* The number of positions in lo..hi whose argument is present exactly once.
PresentCount(arguments, lo, hi) ==
    Cardinality({ i \in lo..hi : arguments[i].num_occurrences = 1 })

\* C3: for a concrete signature that passes IsValid and has a repeated block
\* of L arguments repeated R times (R a count, R >= 0), concrete_arguments
\* has length (non-repeated arguments occurring once) + L * R and consists of
\* the present arguments before the block in declared order, then R copies
\* of the whole block in declared order, then the present arguments after it.
C3_BlockExpansion ==
    (pc = "validated" /\ ok(status) /\ sig[1].is_concrete
        /\ FirstRepeatedArgumentIndex(sig[1].arguments) >= 0
        /\ sig[1].arguments[FirstRepeatedArgumentIndex(sig[1].arguments) + 1]
                .num_occurrences >= 0)
    => LET arguments == sig[1].arguments
           c == sig[1].concrete_arguments
           first == FirstRepeatedArgumentIndex(arguments) + 1
           last == LastRepeatedArgumentIndex(arguments) + 1
           L == Cardinality({ i \in 1..Len(arguments) : repeated(arguments[i]) })
           R == arguments[first].num_occurrences
           B == PresentCount(arguments, 1, first - 1)
       IN  /\ Len(c) = Cardinality({ i \in 1..Len(arguments) :
                            ~repeated(arguments[i])
                            /\ arguments[i].num_occurrences = 1 }) + L * R
           /\ \A i \in 1..(first - 1) :
                arguments[i].num_occurrences = 1
                    => c[PresentCount(arguments, 1, i)] = arguments[i]
           /\ \A r \in 0..(R - 1) : \A j \in 1..L :
                c[B + r * L + j] = arguments[first - 1 + j]
           /\ \A i \in (last + 1)..Len(arguments) :
                arguments[i].num_occurrences = 1
                    => c[B + L * R + PresentCount(arguments, last + 1, i)]
                            = arguments[i]

\* A concrete valid signature with one present argument before and one after
\* a block of two distinct members repeated twice.
C3_Witness ==
    /\ pc = "validated" /\ ok(status) /\ sig[1].is_concrete
    /\ sig[1].arguments =
        << Fixed("INT64", REQUIRED, 1), Fixed("BOOL", REPEATED, 2),
           Fixed("INT64", REPEATED, 2),
           WithDefault(Fixed("STRING", OPTIONAL, 1), Value("STRING", "x")) >>
    /\ Len(sig[1].concrete_arguments) = 6

\* f(REQUIRED INT64 a, OPTIONAL STRING b DEFAULT 'x', REPEATED BOOL c) -> BOOL
\* with num_occurrences a = 1, b = 1, c = 4.
ExampleA == Fixed("INT64", REQUIRED, 1)
ExampleB == WithDefault(Fixed("STRING", OPTIONAL, 1), Value("STRING", "x"))
ExampleC == Fixed("BOOL", REPEATED, 4)
IsExample ==
    /\ sig # <<>>
    /\ sig[1].arguments = << ExampleA, ExampleB, ExampleC >>
    /\ sig[1].result_type.kind = ARG_TYPE_FIXED
    /\ sig[1].result_type.type = "BOOL"
ExampleExpansion ==
    << ExampleA, ExampleB, ExampleC, ExampleC, ExampleC, ExampleC >>

-----------------------------------------------------------------------------
(* Properties of the cardinality rules *)

\* No Required or Repeated argument follows an Optional one.
OptionalsFormSuffix(arguments) ==
    \A i \in 1..Len(arguments) : \A j \in (i + 1)..Len(arguments) :
        optional(arguments[i]) => optional(arguments[j])

\* Every argument between two Repeated arguments is Repeated.
RepeatedsFormOneRun(arguments) ==
    \A i \in 1..Len(arguments) : \A j \in (i + 1)..Len(arguments) :
        repeated(arguments[i]) /\ repeated(arguments[j])
            => \A k \in i..j : repeated(arguments[k])

RepeatedCount(arguments) ==
    Cardinality({ i \in 1..Len(arguments) : repeated(arguments[i]) })

OptionalCount(arguments) ==
    Cardinality({ i \in 1..Len(arguments) : optional(arguments[i]) })

\* C1: whenever IsValid accepts a signature, its Optional arguments form a
\* suffix of the argument list and its Repeated arguments one contiguous run.
C1_AcceptedImpliesOrdering ==
    (pc = "validated" /\ ok(status))
    => /\ OptionalsFormSuffix(sig[1].arguments)
       /\ RepeatedsFormOneRun(sig[1].arguments)

C1_Witness ==
    /\ pc = "validated" /\ ok(status)
    /\ Len(sig[1].arguments) = 3
    /\ RepeatedCount(sig[1].arguments) = 2
    /\ OptionalCount(sig[1].arguments) = 1

\* The signatures C2 speaks of: every argument individually valid, no Void,
\* no lambdas, no descriptors, and a result that is not templated.
C2_Covered ==
    /\ pc = "validated"
    /\ \A i \in 1..Len(sig[1].arguments) :
        /\ ok(FunctionArgumentType_IsValid(sig[1].arguments[i]))
        /\ sig[1].arguments[i].kind
              \notin { ARG_TYPE_VOID, ARG_TYPE_LAMBDA, ARG_TYPE_DESCRIPTOR }
    /\ ~IsTemplated(sig[1].result_type)

\* C2 as stated: on such signatures IsValid accepts if and only if the
\* Optional arguments form a suffix and the Repeated arguments one run.
C2_AsStated ==
    C2_Covered
    => (ok(status) <=> /\ OptionalsFormSuffix(sig[1].arguments)
                       /\ RepeatedsFormOneRun(sig[1].arguments))

\* C2, amended: on such signatures, the result type being Required, IsValid
\* accepts if and only if the Optional arguments form a suffix, the Repeated
\* arguments form one run, all Repeated arguments carry the same
\* num_occurrences, and, when there is a Repeated argument, there are more
\* Repeated arguments than Optional ones.
C2_AcceptsIffOrderingAndCounts ==
    (C2_Covered /\ required(sig[1].result_type))
    => (ok(status) <=>
            /\ OptionalsFormSuffix(sig[1].arguments)
            /\ RepeatedsFormOneRun(sig[1].arguments)
            /\ \A i, j \in 1..Len(sig[1].arguments) :
                  repeated(sig[1].arguments[i]) /\ repeated(sig[1].arguments[j])
                  => sig[1].arguments[i].num_occurrences
                         = sig[1].arguments[j].num_occurrences
            /\ RepeatedCount(sig[1].arguments) > 0
                  => RepeatedCount(sig[1].arguments)
                         > OptionalCount(sig[1].arguments))

\* Both orderings hold and IsValid still rejects: one Repeated argument
\* followed by one Optional argument.
C2_Witness ==
    /\ C2_Covered
    /\ ~ok(status)
    /\ required(sig[1].result_type)
    /\ Len(sig[1].arguments) = 2
    /\ repeated(sig[1].arguments[1])
    /\ optional(sig[1].arguments[2])

\* C6: a signature with a repeated block is accepted only if it has strictly
\* more Repeated arguments than trailing Optional arguments; one whose
\* NumRepeatedArguments is at most its NumOptionalArguments is rejected.
C6_RepeatedExceedOptional ==
    (pc = "validated" /\ RepeatedCount(sig[1].arguments) > 0)
    => /\ ok(status) => RepeatedCount(sig[1].arguments)
                            > OptionalCount(sig[1].arguments)
       /\ NumRepeatedArguments(sig[1]) <= NumOptionalArguments(sig[1])
            => ~ok(status)

\* Two Repeated arguments with equal counts followed by two Optional ones:
\* rejected by the count rule alone.
C6_Witness ==
    /\ pc = "validated"
    /\ Len(sig[1].arguments) = 3
    /\ repeated(sig[1].arguments[1])
    /\ optional(sig[1].arguments[2]) /\ optional(sig[1].arguments[3])
    /\ status = MakeSqlError("The number of repeated arguments must be greater than the number of optional arguments", "")

ConstructWire == Construct(WireResults, WireArgs, MaxWireArgs)

\* signature.Serialize(&file_descriptor_set_map, &proto)
Serialize ==
    /\ pc = "constructed"
    /\ wire' = << FunctionSignature_Serialize(sig[1]) >>
    /\ status' = OkStatus
    /\ pc' = "serialized"
    /\ UNCHANGED <<ndebug, sig, argtype, copy, input, answer, once>>

\* FunctionSignature::Deserialize(proto, pools, factory, &result); the
\* signature is built by the constructor, debug validity check included.
Deserialize ==
    /\ pc = "serialized"
    /\ LET d == FunctionSignature_Deserialize(wire[1])
       IN  IF ~ok(d.status)
           THEN /\ pc' = "deserialize_failed"
                /\ status' = d.status
                /\ copy' = <<>>
           ELSE IF DcheckFails(d.result_type[1], d.arguments, d.context_id,
                               d.options)
           THEN /\ pc' = "deserialize_aborted"
                /\ status' = status
                /\ copy' = << InitializedSignature(d.result_type[1],
                                 d.arguments, d.context_id, d.options) >>
           ELSE /\ pc' = "deserialized"
                /\ status' = OkStatus
                /\ copy' = << FunctionSignature(d.result_type[1], d.arguments,
                                 d.context_id, d.options) >>
    /\ UNCHANGED <<ndebug, sig, argtype, wire, input, answer, once>>

NextWire == ConstructWire \/ Serialize \/ Deserialize

SpecWire == Init /\ [][NextWire]_vars

ConstructCtx == Construct(CtxResults, CtxArgs, MaxCtxArgs)

\* signature.IsValidForFunction()
CallIsValidForFunction ==
    /\ pc = "constructed"
    /\ status' = IsValidForFunction(sig[1])
    /\ pc' = "validated_for_function"
    /\ UNCHANGED <<ndebug, sig, argtype, wire, copy, input, answer, once>>

\* signature.IsValidForTableValuedFunction()
CallIsValidForTableValuedFunction ==
    /\ pc = "constructed"
    /\ status' = IsValidForTableValuedFunction(sig[1])
    /\ pc' = "validated_for_tvf"
    /\ UNCHANGED <<ndebug, sig, argtype, wire, copy, input, answer, once>>

\* signature.IsValidForProcedure()
CallIsValidForProcedure ==
    /\ pc = "constructed"
    /\ status' = IsValidForProcedure(sig[1])
    /\ pc' = "validated_for_procedure"
    /\ UNCHANGED <<ndebug, sig, argtype, wire, copy, input, answer, once>>

NextCtx ==
    \/ ConstructCtx
    \/ IsValid
    \/ CallIsValidForFunction
    \/ CallIsValidForTableValuedFunction
    \/ CallIsValidForProcedure

SpecCtx == Init /\ [][NextCtx]_vars

ConstructRes == Construct(ResResults, ResArgs, MaxResArgs)

\* signature.SetConcreteResultType(type), any number of times
CallSetConcreteResultType ==
    /\ pc \in { "constructed", "result_set" }
    /\ \E type \in Types :
          /\ input' = << type >>
          /\ sig' = << SetConcreteResultType(sig[1], type) >>
    /\ pc' = "result_set"
    /\ UNCHANGED <<ndebug, argtype, status, wire, copy, answer, once>>

NextRes == ConstructRes \/ IsValid \/ CallSetConcreteResultType

SpecRes == Init /\ [][NextRes]_vars

-----------------------------------------------------------------------------
(* Concurrent calls of SimpleOptions.  The presets live in a function-local *)
(* static; a thread passes the static's declaration, which initializes it   *)
(* on the first pass and makes concurrent passes wait, then indexes the     *)
(* vector by cardinality.  An object is its allocation number and content.  *)

main == <<pc, ndebug, sig, argtype, status, wire, copy, input, answer>>

\* The position of cardinality in the vector: (*options)[0], [1], [2].
PresetIndex(c) ==
    CASE c = REQUIRED -> 1
      [] c = OPTIONAL -> 2
      [] c = REPEATED -> 3

\* new std::vector{ new Options(REQUIRED), new Options(OPTIONAL),
\*                  new Options(REPEATED) }, allocated by the n-th run.
NewPresets(n) ==
    << [ allocation |-> 3 * n + 1, options |-> OptionsOfCardinality(REQUIRED) ],
       [ allocation |-> 3 * n + 2, options |-> OptionsOfCardinality(OPTIONAL) ],
       [ allocation |-> 3 * n + 3, options |-> OptionsOfCardinality(REPEATED) ] >>

\* A thread calls SimpleOptions(cardinality).
CallSimpleOptions(t) ==
    /\ tpc[t].at \in { "idle", "returned" }
    /\ \E c \in ArgumentCardinality :
          tpc' = [ tpc EXCEPT ![t] = [ at |-> "static", cardinality |-> c ] ]
    /\ UNCHANGED <<main, guard, presets, inits, got>>

EnterStatic_Unguarded(t) ==
    /\ tpc[t].at = "static"
    /\ IF guard = "initialized"
       THEN /\ tpc' = [ tpc EXCEPT ![t].at = "switch" ]
            /\ guard' = guard
       ELSE /\ tpc' = [ tpc EXCEPT ![t].at = "initializer" ]
            /\ guard' = "initializing"
    /\ UNCHANGED <<main, presets, inits, got>>

\* The thread reaches the declaration of the static: the first one to come
\* runs the initializer, one that comes while it runs waits, one that comes
\* later passes.
EnterStatic(t) ==
    /\ tpc[t].at = "static"
    /\ guard # "initializing"
    /\ IF guard = "initialized"
       THEN /\ tpc' = [ tpc EXCEPT ![t].at = "switch" ]
            /\ guard' = guard
       ELSE /\ tpc' = [ tpc EXCEPT ![t].at = "initializer" ]
            /\ guard' = "initializing"
    /\ UNCHANGED <<main, presets, inits, got>>

\* The initializer allocates the vector and its three objects.
RunInitializer(t) ==
    /\ tpc[t].at = "initializer"
    /\ inits < MaxThreads
    /\ presets' = NewPresets(inits)
    /\ inits' = inits + 1
    /\ guard' = "initialized"
    /\ tpc' = [ tpc EXCEPT ![t].at = "switch" ]
    /\ UNCHANGED <<main, got>>

\* switch (cardinality) return (*options)[i];
ReturnPreset(t) ==
    /\ tpc[t].at = "switch"
    /\ got' = [ got EXCEPT ![t] =
                  << [ cardinality |-> tpc[t].cardinality,
                       object |-> presets[PresetIndex(tpc[t].cardinality)] ] >> ]
    /\ tpc' = [ tpc EXCEPT ![t].at = "returned" ]
    /\ UNCHANGED <<main, guard, presets, inits>>

NextOnce ==
    \E t \in Threads :
        \/ CallSimpleOptions(t)
        \/ EnterStatic(t)
        \/ RunInitializer(t)
        \/ ReturnPreset(t)

SpecOnce == Init /\ [][NextOnce]_vars

-----------------------------------------------------------------------------
(* Properties of single arguments *)

SimpleRequiredShape(t) ==
    /\ t.kind \in { ARG_TYPE_FIXED, ARG_TYPE_ANY_1, ARG_TYPE_ANY_2,
                    ARG_ARRAY_TYPE_ANY_1, ARG_ARRAY_TYPE_ANY_2 }
    /\ t.options = DefaultOptions

LambdaShapeAllowed(a) ==
    /\ \A i \in 1..Len(lambda(a).argument_types) :
          SimpleRequiredShape(lambda(a).argument_types[i])
    /\ SimpleRequiredShape(lambda(a).body_type)

\* C7 as stated: Lambda(argument_types, body_type) produces no Lambda
\* argument when a nested argument type or the body type has a kind outside
\* {Fixed, Any1, Any2, ArrayAny1, ArrayAny2} or options other than the simple
\* Required ones.
C7_AsStated ==
    (argtype # <<>> /\ IsLambda(argtype[1])) => LambdaShapeAllowed(argtype[1])

\* C7, amended: Lambda(argument_types, body_type) always produces a Lambda
\* argument; FunctionArgumentType::IsValid on that argument fails, with an
\* internal error, whenever a nested argument type or the body type has a
\* kind outside {Fixed, Any1, Any2, ArrayAny1, ArrayAny2} or options other
\* than the simple Required ones, and succeeds otherwise.
C7_LambdaShapeRejectedByIsValid ==
    (pc = "argument_validated" /\ IsLambda(argtype[1]))
    => IF LambdaShapeAllowed(argtype[1])
       THEN ok(status)
       ELSE status.code = "INTERNAL"

C7_Witness ==
    /\ pc = "argument_validated"
    /\ IsLambda(argtype[1])
    /\ Len(lambda(argtype[1]).argument_types) = 2
    /\ SimpleRequiredShape(lambda(argtype[1]).argument_types[1])
    /\ lambda(argtype[1]).argument_types[2].options.must_be_constant
    /\ SimpleRequiredShape(lambda(argtype[1]).body_type)
    /\ status.code = "INTERNAL"

KindsWithDefault ==
    { ARG_TYPE_FIXED, ARG_TYPE_ANY_1, ARG_TYPE_ANY_2, ARG_ARRAY_TYPE_ANY_1,
      ARG_ARRAY_TYPE_ANY_2, ARG_PROTO_MAP_ANY, ARG_PROTO_MAP_KEY_ANY,
      ARG_PROTO_MAP_VALUE_ANY, ARG_PROTO_ANY, ARG_STRUCT_ANY, ARG_ENUM_ANY,
      ARG_TYPE_ARBITRARY }

KindsWithoutDefault ==
    { ARG_TYPE_RELATION, ARG_TYPE_MODEL, ARG_TYPE_CONNECTION,
      ARG_TYPE_DESCRIPTOR, ARG_TYPE_VOID }

IsKindDefaultError(s, kind) ==
    /\ s.code = "INVALID_ARGUMENT"
    /\ s.msg = " argument cannot have a default value"
    /\ s.detail = SignatureArgumentKindToString(kind)

CountAllowed(a) ==
    CASE cardinality(a) = REQUIRED -> a.num_occurrences = 1
      [] cardinality(a) = OPTIONAL -> a.num_occurrences \in {0, 1}
      [] cardinality(a) = REPEATED -> a.num_occurrences >= 0

CountErrorMessage(a) ==
    CASE cardinality(a) = REQUIRED ->
            "REQUIRED concrete argument has N occurrences but must have exactly 1"
      [] cardinality(a) = OPTIONAL ->
            "OPTIONAL concrete argument has N occurrences but must have 0 or 1"
      [] cardinality(a) = REPEATED ->
            "REPEATED concrete argument has N occurrences but must have at least 0"

\* C10: on a concrete argument IsValid accepts only the occurrence counts its
\* cardinality allows (Required exactly 1, Optional 0 or 1, Repeated any
\* count >= 0); any other count yields the validation error for that
\* cardinality.
C10_ConcreteCounts ==
    (pc = "argument_validated" /\ IsConcrete(argtype[1]))
    => /\ ok(status) => CountAllowed(argtype[1])
       /\ ~CountAllowed(argtype[1])
            => status = MakeSqlError(CountErrorMessage(argtype[1]),
                                     ToString(argtype[1].num_occurrences))

C10_Witness ==
    /\ pc = "argument_validated"
    /\ IsConcrete(argtype[1])
    /\ optional(argtype[1])
    /\ argtype[1].num_occurrences = 2
    /\ status.msg = "OPTIONAL concrete argument has N occurrences but must have 0 or 1"

-----------------------------------------------------------------------------
(* Properties of the result-template rule *)

ResultTemplateError ==
    MakeSqlError("Result type template must match an argument type template", "")

NoArgumentRelatedToResult(s) ==
    /\ IsTemplated(s.result_type)
    /\ s.result_type.kind # ARG_TYPE_ARBITRARY
    /\ ~IsRelation(s.result_type)
    /\ \A i \in 1..Len(s.arguments) :
          ~TemplatedKindIsRelated(s.result_type, s.arguments[i].kind)

\* C9: IsValid rejects a signature whose result type is templated, not
\* Arbitrary and not Relation when no argument's kind is related to the
\* result under TemplatedKindIsRelated, and it reports 'Result type template
\* must match an argument type template' exactly then (the result not being
\* Optional or Repeated, which is checked first).  f(REPEATED ANY_1) ->
\* ARRAY<ANY_1> passes the rule; f(REPEATED ANY_1) -> ANY_2 fails it.
C9_ResultTemplateRule ==
    pc = "validated"
    => /\ NoArgumentRelatedToResult(sig[1]) => ~ok(status)
       /\ status = ResultTemplateError
            <=> (NoArgumentRelatedToResult(sig[1]) /\ required(sig[1].result_type))
       /\ (sig[1].arguments = << Templated(ARG_TYPE_ANY_1, REPEATED, -1) >>
              /\ sig[1].result_type = Templated(ARG_ARRAY_TYPE_ANY_1, REQUIRED, -1))
            => ok(status)
       /\ (sig[1].arguments = << Templated(ARG_TYPE_ANY_1, REPEATED, -1) >>
              /\ sig[1].result_type = Templated(ARG_TYPE_ANY_2, REQUIRED, -1))
            => status = ResultTemplateError

\* f(REPEATED ANY_1 x) -> ANY_2, rejected by the result-template rule.
C9_Witness ==
    /\ pc = "validated"
    /\ sig[1].arguments = << Templated(ARG_TYPE_ANY_1, REPEATED, -1) >>
    /\ sig[1].result_type = Templated(ARG_TYPE_ANY_2, REQUIRED, -1)
    /\ status = ResultTemplateError

-----------------------------------------------------------------------------
(* Properties of the wire form *)

\* C5: for every valid signature S, Deserialize(Serialize(S)) yields a
\* signature equal to S in its argument list (per-argument options and
\* num_occurrences included), its result type and its context id, the
\* options of a Relation argument with a relation_input_schema included.
C5_RoundTrip ==
    (pc \in { "deserialized", "deserialize_failed", "deserialize_aborted" }
        /\ ok(FunctionSignature_IsValid(sig[1])))
    => /\ pc = "deserialized"
       /\ copy[1].arguments = sig[1].arguments
       /\ copy[1].result_type = sig[1].result_type
       /\ copy[1].context_id = sig[1].context_id

\* The round trip of signatures without a relation_input_schema argument.
C5_RoundTripWithoutSchema ==
    (pc \in { "deserialized", "deserialize_failed", "deserialize_aborted" }
        /\ ok(FunctionSignature_IsValid(sig[1]))
        /\ \A i \in 1..Len(sig[1].arguments) :
              ~has_relation_input_schema(sig[1].arguments[i].options))
    => /\ pc = "deserialized"
       /\ copy[1].arguments = sig[1].arguments
       /\ copy[1].result_type = sig[1].result_type
       /\ copy[1].context_id = sig[1].context_id

-----------------------------------------------------------------------------
(* Properties of defaults *)

\* C11: IsValid accepts an argument that carries a default value only if
\* the argument is Optional, its kind can carry a default, the default is a
\* valid value and, when the argument has a fixed type, the default's type
\* equals it; a Required or Repeated argument with a default is rejected
\* whatever its kind, occurrence count or concreteness.
C11_DefaultAcceptedOnlyIf ==
    (pc = "argument_validated" /\ HasDefault(argtype[1]))
    => LET a == argtype[1]
       IN  /\ ok(status)
                => /\ optional(a)
                   /\ a.kind \in KindsWithDefault
                   /\ GetDefault(a).is_valid
                   /\ a.type # "" => GetDefault(a).type = a.type
           /\ ~optional(a) => ~ok(status)

\* An Optional INT64 argument with an INT64 default, accepted.
C11_Witness ==
    /\ pc = "argument_validated"
    /\ argtype[1].kind = ARG_TYPE_FIXED
    /\ argtype[1].type = "INT64"
    /\ optional(argtype[1])
    /\ HasDefault(argtype[1])
    /\ GetDefault(argtype[1]) = Value("INT64", "1")
    /\ ok(status)

-----------------------------------------------------------------------------
(* Properties of lambda arguments in a signature *)

\* Every templated nested argument type of the Lambda at arg_index is
\* related to the kind of an argument at a smaller index.
LambdaRelatedToEarlier(arguments, arg_index) ==
    LET types == lambda(arguments[arg_index + 1]).argument_types
    IN  \A i \in 1..Len(types) :
            IsTemplated(types[i])
            => \E j \in 0..(arg_index - 1) :
                  TemplatedKindIsRelated(types[i], arguments[j + 1].kind)

\* C12: for every Lambda argument at any position, position 0 included,
\* IsValid rejects the signature unless every templated nested lambda
\* argument type is related to the kind of an argument at a strictly smaller
\* index; Func(LAMBDA(T1->BOOL), ARRAY(T1)) is rejected.
C12_LambdaRelatedOrRejected ==
    (pc = "validated" /\ ok(status))
    => \A arg_index \in 0..(Len(sig[1].arguments) - 1) :
          IsLambda(sig[1].arguments[arg_index + 1])
          => LambdaRelatedToEarlier(sig[1].arguments, arg_index)

\* The same rule for the Lambda arguments at positions 1 and later.
C12_LambdaRelatedAfterFirst ==
    (pc = "validated" /\ ok(status))
    => \A arg_index \in 1..(Len(sig[1].arguments) - 1) :
          IsLambda(sig[1].arguments[arg_index + 1])
          => LambdaRelatedToEarlier(sig[1].arguments, arg_index)

\* Func(ARRAY(T2), LAMBDA(T1->BOOL)), rejected by the rule.
C12_RejectedAfterFirst ==
    /\ pc = "validated"
    /\ Len(sig[1].arguments) = 2
    /\ sig[1].arguments[1].kind = ARG_ARRAY_TYPE_ANY_2
    /\ IsLambda(sig[1].arguments[2])
    /\ status = MakeSqlError("Templated argument of lambda argument type must match an argument type before the lambda argument", "")

-----------------------------------------------------------------------------
(* Properties of descriptors and of the context-specific checks *)

DescriptorError ==
    MakeSqlError("The table offset argument of descriptor should point to a valid table argument", "")

\* The argument at index i is a Descriptor whose configured table offset is
\* negative, not less than the number of arguments, or names an argument
\* that is not a Relation.
BadTableOffset(arguments, i) ==
    /\ arguments[i + 1].kind = ARG_TYPE_DESCRIPTOR
    /\ arguments[i + 1].options.descriptor_resolution_table_offset # <<>>
    /\ LET table_offset ==
              arguments[i + 1].options.descriptor_resolution_table_offset[1]
       IN  \/ table_offset < 0
           \/ table_offset >= Len(arguments)
           \/ arguments[table_offset + 1].kind # ARG_TYPE_RELATION

\* C13: IsValid rejects a signature in which some Descriptor argument has a
\* table offset that is negative, not less than the number of arguments, or
\* that indexes an argument whose kind is not Relation; a Descriptor without
\* a configured offset is not constrained: the descriptor error is reported
\* only for a configured bad offset.
C13_DescriptorOffsets ==
    pc = "validated"
    => /\ (\E i \in 0..(Len(sig[1].arguments) - 1) :
              BadTableOffset(sig[1].arguments, i))
            => ~ok(status)
       /\ status = DescriptorError
            => \E i \in 0..(Len(sig[1].arguments) - 1) :
                  BadTableOffset(sig[1].arguments, i)

\* f(DESCRIPTOR -> offset 1, INT64): the offset is in range but the
\* argument it names is not a Relation.
C13_Witness ==
    /\ pc = "validated"
    /\ Len(sig[1].arguments) = 2
    /\ sig[1].arguments[1] = DescriptorWithOffset(1)
    /\ sig[1].arguments[2] = Fixed("INT64", REQUIRED, -1)
    /\ status = DescriptorError

HasRelation(s) ==
    \/ s.result_type.kind = ARG_TYPE_RELATION
    \/ \E i \in 1..Len(s.arguments) : s.arguments[i].kind = ARG_TYPE_RELATION

\* C14: IsValidForFunction and IsValidForProcedure both reject every
\* signature with a Relation argument or a Relation result;
\* IsValidForFunction also rejects a Void result, IsValidForProcedure
\* accepts one.
C14_FunctionAndProcedure ==
    /\ pc = "validated_for_function"
       => (ok(status) <=> (~HasRelation(sig[1])
                            /\ sig[1].result_type.kind # ARG_TYPE_VOID))
    /\ pc = "validated_for_procedure"
       => (ok(status) <=> ~HasRelation(sig[1]))

\* A signature with a Void result and no relation, as a function.
C14_Witness ==
    /\ pc = "validated_for_function"
    /\ sig[1].result_type.kind = ARG_TYPE_VOID
    /\ ~HasRelation(sig[1])
    /\ Len(sig[1].arguments) = 2
    /\ ~ok(status)

\* A signature with a Void result and no relation, as a procedure.
C14_ProcedureAcceptsVoid ==
    /\ pc = "validated_for_procedure"
    /\ sig[1].result_type.kind = ARG_TYPE_VOID
    /\ ok(status)

NamesDistinctIgnoringCase(relation) ==
    \A i, j \in 1..Len(relation) :
        (i # j) => AsciiLower(relation[i].name) # AsciiLower(relation[j].name)

\* C15: IsValidForTableValuedFunction accepts a signature only if the result
\* is a Relation, no Relation argument is Repeated, no Relation argument
\* comes after an Optional or Repeated argument, and every relation input
\* schema has column names that are unique ignoring case.
C15_TableValuedFunction ==
    (pc = "validated_for_tvf" /\ ok(status))
    => LET arguments == sig[1].arguments
       IN  /\ sig[1].result_type.kind = ARG_TYPE_RELATION
           /\ \A i \in 1..Len(arguments) :
                 arguments[i].kind = ARG_TYPE_RELATION
                 => /\ ~repeated(arguments[i])
                    /\ \A j \in 1..(i - 1) : required(arguments[j])
                    /\ arguments[i].options.relation_input_schema # <<>>
                         => NamesDistinctIgnoringCase(
                                arguments[i].options.relation_input_schema[1])

\* TVF(TABLE<key INT64, KEY STRING>) -> TABLE, rejected for its column names.
C15_Witness ==
    /\ pc = "validated_for_tvf"
    /\ sig[1].result_type.kind = ARG_TYPE_RELATION
    /\ Len(sig[1].arguments) = 1
    /\ sig[1].arguments[1].options.relation_input_schema # <<>>
    /\ ~NamesDistinctIgnoringCase(sig[1].arguments[1].options.relation_input_schema[1])
    /\ status.code = "INTERNAL"

-----------------------------------------------------------------------------
(* Properties of the error tiers *)

AfterValidation ==
    pc \in { "validated", "validated_for_function", "validated_for_tvf",
             "validated_for_procedure" }

\* C19 as stated: every rejection by IsValid, IsValidForFunction,
\* IsValidForTableValuedFunction and IsValidForProcedure is a validation
\* error, distinct from the internal-invariant class.
C19_AsStated ==
    (AfterValidation /\ ~ok(status)) => status.code = "INVALID_ARGUMENT"

\* C19, amended: every rejection by IsValid is a validation error
\* (MakeSqlError), except that a Lambda argument of a disallowed shape is
\* rejected with an internal error; every rejection by IsValidForFunction,
\* IsValidForTableValuedFunction and IsValidForProcedure is an internal
\* error (a failed ZETASQL_RET_CHECK), the class also used for Lambda shape
\* violations, so the variants' rejections are not distinguishable from it.
C19_TiersByCheck ==
    /\ (pc = "validated" /\ ~ok(status))
       => IF status.code = "INTERNAL"
          THEN \E i \in 1..Len(sig[1].arguments) :
                  /\ IsLambda(sig[1].arguments[i])
                  /\ ~LambdaShapeAllowed(sig[1].arguments[i])
          ELSE status.code = "INVALID_ARGUMENT"
    /\ (pc \in { "validated_for_function", "validated_for_tvf",
                 "validated_for_procedure" } /\ ~ok(status))
       => status.code = "INTERNAL"

\* A function signature with a Relation argument, rejected by
\* IsValidForFunction with an internal error.
C19_Witness ==
    /\ pc = "validated_for_function"
    /\ Len(sig[1].arguments) = 1
    /\ sig[1].arguments[1].kind = ARG_TYPE_RELATION
    /\ sig[1].result_type.kind = ARG_TYPE_FIXED
    /\ status = [ code |-> "INTERNAL",
                  msg |-> "Relation arguments are only allowed in table-valued functions",
                  detail |-> "" ]

-----------------------------------------------------------------------------
(* Properties of the result type *)

\* C16: SetConcreteResultType(type) replaces the result with a Fixed
\* argument of that type with num_occurrences = 1, recomputes is_concrete
\* (afterwards the signature is concrete iff every argument with
\* num_occurrences > 0 is concrete), and leaves the argument list, the
\* derived counts and the concrete-argument list unchanged.
C16_SetConcreteResultType ==
    [][pc' = "result_set"
        => /\ sig'[1].result_type.kind = ARG_TYPE_FIXED
           /\ sig'[1].result_type.type = input'[1]
           /\ sig'[1].result_type.num_occurrences = 1
           /\ sig'[1].is_concrete
                <=> \A i \in 1..Len(sig[1].arguments) :
                        sig[1].arguments[i].num_occurrences > 0
                        => IsConcrete(sig[1].arguments[i])
           /\ sig'[1].arguments = sig[1].arguments
           /\ sig'[1].num_repeated_arguments = sig[1].num_repeated_arguments
           /\ sig'[1].num_optional_arguments = sig[1].num_optional_arguments
           /\ sig'[1].concrete_arguments = sig[1].concrete_arguments]_vars

\* f(INT64 bound, BOOL repeated twice) after its templated result was set to
\* STRING: concrete, with the three concrete arguments of construction.
C16_Witness ==
    /\ pc = "result_set"
    /\ input = << "STRING" >>
    /\ sig[1].result_type = Fixed("STRING", REQUIRED, 1)
    /\ sig[1].arguments = << Fixed("INT64", REQUIRED, 1), Fixed("BOOL", REPEATED, 2) >>
    /\ sig[1].is_concrete
    /\ Len(sig[1].concrete_arguments) = 3

ResultCardinalityError ==
    MakeSqlError("Result type cannot be repeated or optional", "")

-----------------------------------------------------------------------------
(* Properties of the shared presets *)

PresetsInitializedOnce ==
    /\ inits <= 1
    /\ \A t \in Threads :
          tpc[t].at \in { "switch", "returned" }
          => (inits = 1 /\ guard = "initialized")
    /\ guard = "initialized" => inits = 1

SameCardinalitySameObject ==
    \A t, u \in Threads :
        (got[t] # <<>> /\ got[u] # <<>>
            /\ got[t][1].cardinality = got[u][1].cardinality)
        => /\ got[t][1].object = got[u][1].object
           /\ got[t][1].object.options
                = OptionsOfCardinality(got[t][1].cardinality)

\* C18: under every interleaving of concurrent first calls of SimpleOptions
\* the three presets are initialized exactly once, every caller asking for
\* the same cardinality receives the same shared object, and no preset is
\* modified after initialization.
C18_SimpleOptionsOnce ==
    /\ [](PresetsInitializedOnce /\ SameCardinalitySameObject)
    /\ [][guard = "initialized" => presets' = presets]_vars

\* Two threads that both asked for the Optional preset and both returned.
C18_Witness ==
    /\ \A t \in Threads :
          /\ tpc[t].at = "returned"
          /\ got[t] # <<>>
          /\ got[t][1].cardinality = OPTIONAL
    /\ inits = 1

-----------------------------------------------------------------------------
(* Properties of concreteness *)

ConcreteKinds ==
    { ARG_TYPE_FIXED, ARG_TYPE_RELATION, ARG_TYPE_MODEL, ARG_TYPE_CONNECTION,
      ARG_TYPE_LAMBDA }

\* The statement of C20 for a type that is not a Lambda.
ConcreteLeaf(t) == t.kind \in ConcreteKinds /\ t.num_occurrences >= 0

-----------------------------------------------------------------------------
(* Templated kinds and their relation, asked of single arguments *)

MaxNestedArgs == 2

\* The types a Lambda is built from here: a fixed type, the templated kinds
\* of both families, a map kind, and a Lambda of its own.
NestedTypes ==
    { Fixed("INT64", REQUIRED, -1),
      Templated(ARG_TYPE_ANY_1, REQUIRED, -1),
      Templated(ARG_TYPE_ANY_2, REQUIRED, -1),
      Templated(ARG_ARRAY_TYPE_ANY_1, REQUIRED, -1),
      Templated(ARG_PROTO_MAP_ANY, REQUIRED, -1),
      Lambda(<< Templated(ARG_TYPE_ANY_2, REQUIRED, -1) >>,
             Fixed("BOOL", REQUIRED, -1)) }

\* One argument of every plain kind, a bound and repeated one, and a
\* relation with an input schema.
TemplateArgs ==
    { Fixed("INT64", REQUIRED, -1), Fixed("INT64", REPEATED, 2) }
    \cup { Templated(k, REQUIRED, -1) : k \in PlainKinds \ { ARG_TYPE_FIXED } }
    \cup { Templated(ARG_TYPE_ANY_1, OPTIONAL, 1),
           RelationWithSchema(OptionsOfRelation(Schema, TRUE)) }

\* FunctionArgumentType(kind, ...), FunctionArgumentType(type, ...)
NewTemplateArgument ==
    /\ pc = "idle"
    /\ \E a \in TemplateArgs : argtype' = << a >>
    /\ pc' = "argument"
    /\ UNCHANGED <<ndebug, sig, status, wire, copy, input, answer, once>>

\* FunctionArgumentType::Lambda(lambda_argument_types, lambda_body_type)
NewNestedLambda ==
    /\ pc = "idle"
    /\ \E lambda_argument_types \in SeqsUpTo(NestedTypes, MaxNestedArgs),
          lambda_body_type \in NestedTypes :
          argtype' = << Lambda(lambda_argument_types, lambda_body_type) >>
    /\ pc' = "argument"
    /\ UNCHANGED <<ndebug, sig, status, wire, copy, input, answer, once>>

\* argument.IsTemplated()
ArgumentIsTemplated ==
    /\ pc = "argument"
    /\ answer' = << IsTemplated(argtype[1]) >>
    /\ pc' = "argument_templated"
    /\ UNCHANGED <<ndebug, sig, argtype, status, wire, copy, input, once>>

\* argument.TemplatedKindIsRelated(kind)
ArgumentTemplatedKindIsRelated ==
    /\ pc = "argument"
    /\ \E kind \in SignatureArgumentKind :
          /\ input' = << kind >>
          /\ answer' = << TemplatedKindIsRelated(argtype[1], kind) >>
    /\ pc' = "argument_related"
    /\ UNCHANGED <<ndebug, sig, argtype, status, wire, copy, once>>

NextRel ==
    \/ NewTemplateArgument
    \/ NewNestedLambda
    \/ ArgumentIsTemplated
    \/ ArgumentTemplatedKindIsRelated

SpecRel == Init /\ [][NextRel]_vars

\* Not Fixed, not a Relation bound to a schema, not Void.
TemplatedKindRule(a) ==
    /\ a.kind # ARG_TYPE_FIXED
    /\ ~(a.kind = ARG_TYPE_RELATION /\ a.options.relation_input_schema # <<>>)
    /\ a.kind # ARG_TYPE_VOID

\* The nested argument types and the body type of a Lambda.
NestedOf(a) ==
    { lambda(a).argument_types[i] : i \in 1..Len(lambda(a).argument_types) }
    \cup { lambda(a).body_type }

RECURSIVE TemplatedByRule(_)
TemplatedByRule(a) ==
    IF a.kind = ARG_TYPE_LAMBDA
    THEN \E t \in NestedOf(a) : TemplatedByRule(t)
    ELSE TemplatedKindRule(a)

\* C21 as stated: IsTemplated returns true if and only if the argument is
\* not Fixed, not a schema-bound Relation and not Void, for every kind, a
\* Lambda whose nested types are all Fixed included.
C21_AsStated ==
    pc = "argument_templated" => answer[1] = TemplatedKindRule(argtype[1])

\* C21, amended: for an argument that is not a Lambda, IsTemplated returns
\* true if and only if the argument is not Fixed, not a schema-bound Relation
\* and not Void; for a Lambda it returns true if and only if one of its
\* nested argument types or its body type is templated, so a Lambda whose
\* nested types are all Fixed is not templated.
C21_TemplatedLeafOrNested ==
    pc = "argument_templated" => answer[1] = TemplatedByRule(argtype[1])

C21_Witness ==
    /\ pc = "argument_templated"
    /\ IsLambda(argtype[1])
    /\ Len(lambda(argtype[1]).argument_types) = 2
    /\ \A t \in NestedOf(argtype[1]) : t.kind = ARG_TYPE_FIXED
    /\ answer = << FALSE >>

\* C22 as stated: TemplatedKindIsRelated is reflexive: an argument of any
\* kind k, Fixed and Void included, is related to kind k.
C22_AsStated ==
    (pc = "argument_related" /\ input[1] = argtype[1].kind) => answer[1]

\* C22, amended: an argument is related to its own kind if and only if the
\* argument is templated; a Fixed argument, a Void argument, a Relation with
\* an input schema and a Lambda without a templated nested type are not
\* related to their own kind.
C22_ReflexiveOnTemplated ==
    (pc = "argument_related" /\ input[1] = argtype[1].kind)
    => answer[1] = IsTemplated(argtype[1])

C22_Witness ==
    /\ pc = "argument_related"
    /\ argtype[1].kind = ARG_TYPE_VOID
    /\ input = << ARG_TYPE_VOID >>
    /\ answer = << FALSE >>

\* C23: for a Lambda argument and a kind k other than Lambda,
\* TemplatedKindIsRelated(k) holds if and only if one of the nested argument
\* types or the body type is related to k; a Lambda with no templated nested
\* type is related to no kind at all.
C23_LambdaRelationIsUnion ==
    (pc = "argument_related" /\ IsLambda(argtype[1]))
    => /\ input[1] # ARG_TYPE_LAMBDA
          => answer[1] = (\E t \in NestedOf(argtype[1]) :
                              TemplatedKindIsRelated(t, input[1]))
       /\ (\A t \in NestedOf(argtype[1]) : ~TemplatedByRule(t))
          => ~answer[1]

C23_Witness ==
    /\ pc = "argument_related"
    /\ IsLambda(argtype[1])
    /\ lambda(argtype[1]).argument_types
          = << Fixed("INT64", REQUIRED, -1),
               Templated(ARG_TYPE_ANY_2, REQUIRED, -1) >>
    /\ lambda(argtype[1]).body_type = Templated(ARG_ARRAY_TYPE_ANY_1, REQUIRED, -1)
    /\ input = << ARG_TYPE_ANY_1 >>
    /\ answer = << TRUE >>

\* The unordered pairs of distinct kinds that are related.
RelatedPairs ==
    { { ARG_TYPE_ANY_1, ARG_ARRAY_TYPE_ANY_1 },
      { ARG_TYPE_ANY_2, ARG_ARRAY_TYPE_ANY_2 },
      { ARG_PROTO_MAP_ANY, ARG_PROTO_MAP_KEY_ANY },
      { ARG_PROTO_MAP_ANY, ARG_PROTO_MAP_VALUE_ANY } }

\* C29: on arguments that are not Lambdas and have no relation input
\* schema, an argument of kind k1 is related to a distinct kind k2 exactly
\* when {k1, k2} is one of {Any1, ArrayAny1}, {Any2, ArrayAny2},
\* {MapAny, MapKeyAny}, {MapAny, MapValueAny}, and an argument of kind k2 is
\* then related to k1 as well; MapKeyAny and MapValueAny are unrelated, and
\* so are the Any1 and Any2 families.
C29_RelatedPairsSymmetric ==
    ( /\ pc = "argument_related"
      /\ ~IsLambda(argtype[1])
      /\ ~has_relation_input_schema(argtype[1].options)
      /\ input[1] # argtype[1].kind )
    => /\ answer[1] = ({ argtype[1].kind, input[1] } \in RelatedPairs)
       /\ \A b \in TemplateArgs :
             ( /\ b.kind = input[1]
               /\ ~has_relation_input_schema(b.options) )
             => TemplatedKindIsRelated(b, argtype[1].kind) = answer[1]

C29_Witness ==
    /\ pc = "argument_related"
    /\ argtype[1].kind = ARG_TYPE_ANY_1
    /\ input = << ARG_ARRAY_TYPE_ANY_1 >>
    /\ answer = << TRUE >>

-----------------------------------------------------------------------------
(* Order of the checks in FunctionSignature::IsValid, and the counts of a   *)
(* valid signature                                                          *)

\* The errors of the checks that look at an argument's place in the list.
OrderingErrors ==
    { "Arguments cannot have type VOID",
      "Optional arguments must be at the end of the argument list",
      "Repeated arguments must be consecutive",
      "Templated argument of lambda argument type must match an argument type before the lambda argument" }

\* Argument j (from 1) breaks one of those rules against the arguments
\* before it.
BreaksOrderingAt(arguments, j) ==
    \/ arguments[j].kind = ARG_TYPE_VOID
    \/ ~optional(arguments[j]) /\ \E i \in 1..(j - 1) : optional(arguments[i])
    \/ /\ repeated(arguments[j])
       /\ \E i \in 1..(j - 1) : \E k \in (i + 1)..(j - 1) :
             repeated(arguments[i]) /\ ~repeated(arguments[k])
    \/ /\ IsLambda(arguments[j])
       /\ j > 1
       /\ \E n \in 1..Len(lambda(arguments[j]).argument_types) :
             /\ IsTemplated(lambda(arguments[j]).argument_types[n])
             /\ \A i \in 1..(j - 1) :
                   ~TemplatedKindIsRelated(lambda(arguments[j]).argument_types[n],
                                           arguments[i].kind)

InvalidAt(arguments) ==
    { i \in 1..Len(arguments) : ~ok(FunctionArgumentType_IsValid(arguments[i])) }

BrokenAt(arguments) ==
    { j \in 1..Len(arguments) : BreaksOrderingAt(arguments, j) }

First(S) == CHOOSE i \in S : \A j \in S : i <= j

\* C24 as stated: whenever some argument of the signature fails
\* FunctionArgumentType::IsValid, the error that FunctionSignature::IsValid
\* returns is never the optional-suffix, repeated-contiguity, Void-argument
\* or lambda-relation error.
C24_AsStated ==
    (pc = "validated" /\ InvalidAt(sig[1].arguments) # {})
    => status.msg \notin OrderingErrors

\* C24, amended: FunctionSignature::IsValid takes the arguments in order and
\* validates each one individually before it applies the Void, optional-
\* suffix, repeated-contiguity and lambda-relation checks to that argument.
\* With the result checks passed, the error is the per-argument error of the
\* first invalid argument unless an earlier argument breaks one of those
\* four rules, in which case it is that rule's error; an invalid argument
\* hides the ordering errors of its own and of later positions only.
C24_ChecksInterleavedPerArgument ==
    ( /\ pc = "validated"
      /\ ok(ResultCardinalityCheck(sig[1]))
      /\ ok(ResultTemplateCheck(sig[1])) )
    => LET arguments == sig[1].arguments
           invalid == InvalidAt(arguments)
           broken == BrokenAt(arguments)
       IN  /\ ( /\ invalid # {}
                /\ \A j \in broken : First(invalid) <= j )
              => status = FunctionArgumentType_IsValid(arguments[First(invalid)])
           /\ ( /\ broken # {}
                /\ \A i \in invalid : First(broken) < i )
              => status.msg \in OrderingErrors
           /\ status.msg \in OrderingErrors
              => /\ broken # {}
                 /\ \A i \in invalid : First(broken) < i

\* A Void argument ahead of an invalid one: the Void error is returned.
C24_Witness ==
    /\ pc = "validated"
    /\ Len(sig[1].arguments) = 2
    /\ sig[1].arguments[1].kind = ARG_TYPE_VOID
    /\ InvalidAt(sig[1].arguments) = { 2 }
    /\ status.msg = "Arguments cannot have type VOID"

RequiredCount(arguments) ==
    Cardinality({ i \in 1..Len(arguments) : required(arguments[i]) })

\* C25: for every signature that passes IsValid, NumRepeatedArguments is the
\* number of Repeated arguments, NumOptionalArguments the number of Optional
\* arguments, and NumRequiredArguments the number of Required arguments,
\* which is not negative.
C25_CountsOfValidSignature ==
    (pc = "validated" /\ ok(status))
    => /\ NumRepeatedArguments(sig[1]) = RepeatedCount(sig[1].arguments)
       /\ NumOptionalArguments(sig[1]) = OptionalCount(sig[1].arguments)
       /\ NumRequiredArguments(sig[1]) = RequiredCount(sig[1].arguments)
       /\ NumRequiredArguments(sig[1]) >= 0

C25_Witness ==
    /\ pc = "validated" /\ ok(status)
    /\ Len(sig[1].arguments) = 3
    /\ NumRequiredArguments(sig[1]) = 1
    /\ NumRepeatedArguments(sig[1]) = 2
    /\ required(sig[1].arguments[1])

\* C26: IsValid rejects every signature whose Repeated arguments do not all
\* carry the same num_occurrences; in a valid signature all members of the
\* repeated block share one count.
C26_RepeatedShareOccurrences ==
    pc = "validated"
    => /\ ok(status)
          => \A i, j \in 1..Len(sig[1].arguments) :
                repeated(sig[1].arguments[i]) /\ repeated(sig[1].arguments[j])
                => sig[1].arguments[i].num_occurrences
                       = sig[1].arguments[j].num_occurrences
       /\ status.msg = "Repeated arguments must have the same num_occurrences"
          => \E i, j \in 1..Len(sig[1].arguments) :
                /\ repeated(sig[1].arguments[i]) /\ repeated(sig[1].arguments[j])
                /\ sig[1].arguments[i].num_occurrences
                       # sig[1].arguments[j].num_occurrences

\* Two Repeated arguments, each valid on its own, with different counts.
C26_Witness ==
    /\ pc = "validated"
    /\ Len(sig[1].arguments) = 2
    /\ repeated(sig[1].arguments[1]) /\ repeated(sig[1].arguments[2])
    /\ sig[1].arguments[1].num_occurrences = 0
    /\ sig[1].arguments[2].num_occurrences = MaxOccurrences
    /\ status.msg = "Repeated arguments must have the same num_occurrences"

-----------------------------------------------------------------------------
(* A Lambda's nested types and the occurrence checks of a single argument *)

\* C27 as stated: FunctionArgumentType::IsValid on a Lambda succeeds only if
\* the cardinality is Required and every nested argument type and the body
\* type passes FunctionArgumentType::IsValid itself; otherwise the error is
\* internal.
C27_AsStated ==
    (pc = "argument_validated" /\ IsLambda(argtype[1]))
    => /\ ok(status)
          => /\ required(argtype[1])
             /\ \A t \in NestedOf(argtype[1]) :
                   ok(FunctionArgumentType_IsValid(t))
       /\ ~ok(status) => status.code = "INTERNAL"

\* C27, amended: FunctionArgumentType::IsValid on a Lambda succeeds only if
\* the cardinality is Required and every nested argument type and the body
\* type has an allowed kind and the simple Required options; a violation is
\* an internal error.  The nested types are not validated themselves: their
\* num_occurrences is not looked at, so a nested type is only known to pass
\* IsValid once its occurrence count is left out.
C27_NestedShapeNotValidity ==
    (pc = "argument_validated" /\ IsLambda(argtype[1]))
    => /\ ok(status)
          => /\ required(argtype[1])
             /\ \A t \in NestedOf(argtype[1]) :
                   /\ IsLambdaAllowedArgType(t)
                   /\ t.options = SimpleOptions(REQUIRED)
                   /\ ok(FunctionArgumentType_IsValid(
                            [ t EXCEPT !.num_occurrences = -1 ]))
       /\ ~ok(status) => status.code = "INTERNAL"
       /\ ( /\ required(argtype[1])
            /\ \A t \in NestedOf(argtype[1]) :
                  IsLambdaAllowedArgType(t) /\ t.options = SimpleOptions(REQUIRED) )
          => ok(status)

\* A Lambda that IsValid accepts although a nested argument type, a Required
\* fixed type bound to more than one occurrence, is not valid itself.
C27_Witness ==
    /\ pc = "argument_validated"
    /\ IsLambda(argtype[1])
    /\ ok(status)
    /\ Len(lambda(argtype[1]).argument_types) = 2
    /\ lambda(argtype[1]).argument_types[2] = Fixed("INT64", REQUIRED, MaxOccurrences)
    /\ ~ok(FunctionArgumentType_IsValid(lambda(argtype[1]).argument_types[2]))

OccurrenceErrors ==
    { "REQUIRED concrete argument has N occurrences but must have exactly 1",
      "OPTIONAL concrete argument has N occurrences but must have 0 or 1",
      "REPEATED concrete argument has N occurrences but must have at least 0" }

\* C30: FunctionArgumentType::IsValid never rejects a non-concrete argument
\* because of its occurrence count, whatever num_occurrences is; the
\* Repeated occurrence error is never returned, and the Optional one only
\* for a count above 1, a concrete argument having num_occurrences >= 0.
C30_OccurrenceChecksOnConcreteOnly ==
    pc = "argument_validated"
    => /\ argtype[1].kind \notin ConcreteKinds
          => status.msg \notin OccurrenceErrors
       /\ argtype[1].num_occurrences < 0
          => status.msg \notin OccurrenceErrors
       /\ status.msg
            # "REPEATED concrete argument has N occurrences but must have at least 0"
       /\ status.msg
            = "OPTIONAL concrete argument has N occurrences but must have 0 or 1"
          => argtype[1].num_occurrences > 1

\* A templated Required argument bound to MaxOccurrences occurrences passes.
C30_Witness ==
    /\ pc = "argument_validated"
    /\ argtype[1].kind = ARG_TYPE_ANY_1
    /\ required(argtype[1])
    /\ argtype[1].num_occurrences = MaxOccurrences
    /\ ok(status)

-----------------------------------------------------------------------------
(* Concrete signatures *)

\* A signature that exists: constructed, and validated or with its result
\* type set since.
SignatureExists == pc \in { "constructed", "validated", "result_set" }

\* C28 as stated: whenever a signature reports IsConcrete(), every argument
\* has num_occurrences >= 0, every argument with num_occurrences > 0 is
\* concrete, and the result type is concrete or a Relation; a signature with
\* an argument of num_occurrences -1 is never concrete.
C28_AsStated ==
    (SignatureExists /\ sig[1].is_concrete)
    => /\ \A i \in 1..Len(sig[1].arguments) :
             /\ sig[1].arguments[i].num_occurrences >= 0
             /\ sig[1].arguments[i].num_occurrences > 0
                  => ConcreteLeaf(sig[1].arguments[i])
       /\ \/ ConcreteLeaf(sig[1].result_type)
          \/ sig[1].result_type.kind = ARG_TYPE_RELATION

\* C28, amended: a signature reports IsConcrete() if and only if every
\* argument with num_occurrences > 0 is concrete and the result type is
\* concrete or a Relation.  Arguments with num_occurrences 0 or -1 are not
\* looked at, so a signature with an argument left at num_occurrences -1,
\* templated or not, can be concrete.
C28_ConcreteIgnoresAbsentArguments ==
    SignatureExists
    => ( sig[1].is_concrete
         <=> /\ \A i \in 1..Len(sig[1].arguments) :
                   sig[1].arguments[i].num_occurrences > 0
                   => ConcreteLeaf(sig[1].arguments[i])
             /\ \/ ConcreteLeaf(sig[1].result_type)
                \/ sig[1].result_type.kind = ARG_TYPE_RELATION )

\* f(Any1 left unbound, INT64 bound) with a bound BOOL result is concrete.
C28_Witness ==
    /\ pc = "constructed"
    /\ sig[1].is_concrete
    /\ sig[1].result_type = Fixed("BOOL", REQUIRED, 1)
    /\ sig[1].arguments = << Templated(ARG_TYPE_ANY_1, REQUIRED, -1),
                             Fixed("INT64", REQUIRED, 1) >>

====
